---------------------------- MODULE Spec2Model ----------------------------
(***************************************************************************)
(* Paper-trading portfolio and AutoPilot scan loop of Argus Terminal       *)
(* (argus-web/src/services/paperTradingService.ts).                        *)
(*                                                                         *)
(* Units.  Quantities are counted in units of 0.000001 coin, the           *)
(* granularity of the remainder test of paperSell (line 384); money is in  *)
(* dollars; a price is in dollars per quantity unit.  Inputs are drawn     *)
(* from sets on which amountUSD / price is exact, so the integer           *)
(* arithmetic below is the arithmetic of the code without rounding.        *)
(***************************************************************************)
EXTENDS Integers, Sequences, FiniteSets, TLC

VARIABLES
    portfolio,   \* the module's portfolio object (null until initialized)
    config,      \* the AutoPilot configuration
    isRunning,   \* the module's isRunning flag
    intervalId,  \* TRUE while the setInterval timer of startAutoPilot is armed
    ops,         \* manual paperBuy / paperSell calls suspended at their price fetch
    scans,       \* autoPilotScan invocations in flight, each with its position
    last,        \* the operation that took the last step, and how it ended
    storage,     \* localStorage: the items 'paper_portfolio' and 'autopilot_config'
    council,     \* a call of generateCouncilDecision: its input and its result
    backtest,    \* a call of runBacktest: its input, its locals and its result
    risk,        \* a call of the risk management service: its input and its result
    indicator,   \* a call of an indicator function: its input and its result
    alerts,      \* the state of the alert service and its checkAlerts runs in flight
    socket       \* the BinanceWebSocket instance, its sockets and its timers

vars ==
    <<portfolio, config, isRunning, intervalId, ops, scans, last, storage, council, backtest,
      risk, indicator, alerts, socket>>

-----------------------------------------------------------------------------
(* Bounds of the model and constants of the program *)

MaxTrades == 2
MaxOps == 1
MaxScans == 2
CountCap == 2
StartBalance == 12

DustThreshold == 1
BalanceTolerance == 1

Symbols == {"BTC", "ETH"}
Universe == <<"BTC", "ETH">>
Prices == {2, 4}
Amounts == {4, 8}
SellQuantities == 0..3
ManualAmounts == {4}
TradeSizes == {4}
TamperedBalances == {0, 7, 9, 13}
StoredMaxPositions == {1, 2}
Environments == {[maxPositions |-> 1, quota |-> 1], [maxPositions |-> 2, quota |-> 2]}
NoTicker == 0
Tickers == Prices \cup {NoTicker}

-----------------------------------------------------------------------------
(* Data *)

NoPos == [held |-> FALSE, quantity |-> 0, avgCost |-> 0, stopLoss |-> 0, takeProfit |-> 0]

NullPortfolio ==
    [live |-> FALSE, balance |-> 0, initialBalance |-> 0,
     positions |-> [s \in Symbols |-> NoPos], order |-> <<>>, trades |-> <<>>]

IdleOp == [kind |-> "idle", sym |-> "BTC", amt |-> 0, qty |-> 0, pos |-> NoPos]

Event(o, s, r) == [op |-> o, sym |-> s, res |-> r]

(* A step whose outcome no property below distinguishes. *)
Step == Event("step", "BTC", "done")

Without(seq, s) == SelectSeq(seq, LAMBDA x : x # s)

RECURSIVE SumPnl(_)
SumPnl(ts) ==
    IF ts = <<>> THEN 0
    ELSE (IF Head(ts).status = "closed" THEN Head(ts).pnl ELSE 0) + SumPnl(Tail(ts))

RECURSIVE SumCost(_, _)
SumCost(positions, S) ==
    IF S = {} THEN 0
    ELSE LET s == CHOOSE x \in S : TRUE
         IN positions[s].quantity * positions[s].avgCost + SumCost(positions, S \ {s})

Held(pf) == {s \in Symbols : pf.positions[s].held}

ExpectedBalance(pf) ==
    pf.initialBalance + SumPnl(pf.trades) - SumCost(pf.positions, Held(pf))

Abs(x) == IF x < 0 THEN -x ELSE x

-----------------------------------------------------------------------------
(* initializePaperPortfolio *)

NewPortfolio(initialBalance) ==
    [live |-> TRUE, balance |-> initialBalance, initialBalance |-> initialBalance,
     positions |-> [s \in Symbols |-> NoPos], order |-> <<>>, trades |-> <<>>]

-----------------------------------------------------------------------------
(* savePaperPortfolio / loadPaperPortfolio / repairPortfolioBalance *)

NoSnapshot ==
    [present |-> FALSE, balance |-> 0, initialBalance |-> 0, entries |-> <<>>, trades |-> <<>>]

(* Lines 158-162: the positions Map becomes an object, one entry per key in *)
(* insertion order, and the whole is written as JSON.                       *)
Serialize(pf) ==
    [present |-> TRUE, balance |-> pf.balance, initialBalance |-> pf.initialBalance,
     entries |-> [k \in 1..Len(pf.order) |->
                    [symbol |-> pf.order[k],
                     quantity |-> pf.positions[pf.order[k]].quantity,
                     avgCost |-> pf.positions[pf.order[k]].avgCost,
                     stopLoss |-> pf.positions[pf.order[k]].stopLoss,
                     takeProfit |-> pf.positions[pf.order[k]].takeProfit]],
     trades |-> pf.trades]

(* Lines 131-143: the Map is rebuilt from the entries of the stored object. *)
Deserialize(data) ==
    LET at(s) == CHOOSE k \in 1..Len(data.entries) : data.entries[k].symbol = s
        has(s) == \E k \in 1..Len(data.entries) : data.entries[k].symbol = s
    IN [live |-> TRUE, balance |-> data.balance, initialBalance |-> data.initialBalance,
        positions |-> [s \in Symbols |->
                         IF has(s)
                         THEN [held |-> TRUE, quantity |-> data.entries[at(s)].quantity,
                               avgCost |-> data.entries[at(s)].avgCost,
                               stopLoss |-> data.entries[at(s)].stopLoss,
                               takeProfit |-> data.entries[at(s)].takeProfit]
                         ELSE NoPos],
        order |-> [k \in 1..Len(data.entries) |-> data.entries[k].symbol],
        trades |-> data.trades]

(* localStorage.setItem throws (QuotaExceededError) when the item does not  *)
(* fit: the snapshot holds the whole trade list, and the quota of the       *)
(* storage is counted in trades.                                            *)
QuotaExceeded(st, pf) == Len(pf.trades) > st.quota

(* savePaperPortfolio: localStorage.setItem writes the item, or throws and  *)
(* leaves it as it was.                                                     *)
SavePaperPortfolio(st, pf, throws) ==
    IF throws THEN st ELSE [st EXCEPT !.paper_portfolio = Serialize(pf)]

NeedsRepair(pf) == Abs(pf.balance - ExpectedBalance(pf)) > BalanceTolerance

(* Variant: the balance is never repaired. *)
RepairNothing(pf) == pf

RepairPortfolioBalance(pf) ==
    IF NeedsRepair(pf) THEN [pf EXCEPT !.balance = ExpectedBalance(pf)] ELSE pf

-----------------------------------------------------------------------------
(* paperBuy: the checks before the price fetch, and the update after it *)

(* Variant: paperBuy without the held-symbol check of lines 299-302. *)
PaperBuyCheckNoHeldCheck(pf, s, amountUSD) ==
    IF ~pf.live THEN "null"
    ELSE IF pf.balance < amountUSD THEN "funds"
    ELSE "await"

PaperBuyCheck(pf, s, amountUSD) ==
    IF ~pf.live THEN "null"
    ELSE IF pf.positions[s].held THEN "held"
    ELSE IF pf.balance < amountUSD THEN "funds"
    ELSE "await"

MergeExact(existing, amountUSD, price) ==
    /\ amountUSD % price = 0
    /\ existing.held =>
         (existing.quantity * existing.avgCost + amountUSD)
             % (existing.quantity + amountUSD \div price) = 0

BuyTrade(s, quantity, price) ==
    [symbol |-> s, type |-> "buy", quantity |-> quantity, entryPrice |-> price,
     exitPrice |-> 0, pnl |-> 0, status |-> "open"]

(* Variant: a new position takes the notional, not the price, as its cost. *)
PaperBuyApplyCostIsNotional(pf, s, amountUSD, price) ==
    LET quantity == amountUSD \div price
    IN [pf EXCEPT !.balance = pf.balance - amountUSD,
                  !.positions[s] = [held |-> TRUE, quantity |-> quantity,
                                    avgCost |-> amountUSD, stopLoss |-> 0, takeProfit |-> 0],
                  !.order = IF pf.positions[s].held THEN pf.order ELSE Append(pf.order, s),
                  !.trades = Append(pf.trades, BuyTrade(s, quantity, price))]

PaperBuyApply(pf, s, amountUSD, price) ==
    LET quantity == amountUSD \div price
        existing == pf.positions[s]
        totalQty == existing.quantity + quantity
        newAvgCost == (existing.quantity * existing.avgCost + amountUSD) \div totalQty
        entry == IF existing.held
                 THEN [held |-> TRUE, quantity |-> totalQty, avgCost |-> newAvgCost,
                       stopLoss |-> 0, takeProfit |-> 0]
                 ELSE [held |-> TRUE, quantity |-> quantity, avgCost |-> price,
                       stopLoss |-> 0, takeProfit |-> 0]
    IN [pf EXCEPT !.balance = pf.balance - amountUSD,
                  !.positions[s] = entry,
                  !.order = IF existing.held THEN pf.order ELSE Append(pf.order, s),
                  !.trades = Append(pf.trades, BuyTrade(s, quantity, price))]

-----------------------------------------------------------------------------
(* paperSell: the checks before the price fetch, and the update after it *)

SellQty(position, quantity) == IF quantity = 0 THEN position.quantity ELSE quantity

(* Variant: paperSell without the quantity check of lines 366-369. *)
PaperSellCheckNoQuantityCheck(pf, s, quantity) ==
    IF ~pf.live THEN "null"
    ELSE IF ~pf.positions[s].held THEN "noPosition"
    ELSE "await"

PaperSellCheck(pf, s, quantity) ==
    IF ~pf.live THEN "null"
    ELSE IF ~pf.positions[s].held THEN "noPosition"
    ELSE IF SellQty(pf.positions[s], quantity) > pf.positions[s].quantity THEN "insufficient"
    ELSE "await"

SellTrade(s, sellQty, position, price) ==
    [symbol |-> s, type |-> "sell", quantity |-> sellQty, entryPrice |-> position.avgCost,
     exitPrice |-> price, pnl |-> sellQty * price - sellQty * position.avgCost,
     status |-> "closed"]

KeepsPosition(remainingQty) == remainingQty > DustThreshold

(* Variant: the sell closes the buy records of the symbol in place instead  *)
(* of appending a record.                                                   *)
PaperSellApplyClosesBuy(pf, s, position, sellQty, price) ==
    LET proceeds == sellQty * price
        remainingQty == position.quantity - sellQty
        closed(tr) == IF tr.symbol = s /\ tr.type = "buy"
                      THEN [tr EXCEPT !.status = "closed", !.exitPrice = price,
                                      !.pnl = sellQty * price - sellQty * position.avgCost]
                      ELSE tr
    IN [pf EXCEPT !.balance = pf.balance + proceeds,
                  !.positions[s] = IF KeepsPosition(remainingQty)
                                   THEN [position EXCEPT !.quantity = remainingQty]
                                   ELSE NoPos,
                  !.order = IF KeepsPosition(remainingQty)
                            THEN (IF pf.positions[s].held THEN pf.order
                                  ELSE Append(pf.order, s))
                            ELSE Without(pf.order, s),
                  !.trades = [k \in 1..Len(pf.trades) |-> closed(pf.trades[k])]]

PaperSellApply(pf, s, position, sellQty, price) ==
    LET proceeds == sellQty * price
        remainingQty == position.quantity - sellQty
    IN [pf EXCEPT !.balance = pf.balance + proceeds,
                  !.positions[s] = IF KeepsPosition(remainingQty)
                                   THEN [position EXCEPT !.quantity = remainingQty]
                                   ELSE NoPos,
                  !.order = IF KeepsPosition(remainingQty)
                            THEN (IF pf.positions[s].held THEN pf.order
                                  ELSE Append(pf.order, s))
                            ELSE Without(pf.order, s),
                  !.trades = Append(pf.trades, SellTrade(s, sellQty, position, price))]

-----------------------------------------------------------------------------
(* paperBuyWithLevels: the buy of the scan path, with stop-loss / take-profit *)

PaperBuyWithLevelsCheck(pf, s, amountUSD) ==
    IF ~pf.live THEN "null"
    ELSE IF pf.positions[s].held THEN "held"
    ELSE IF pf.balance < amountUSD THEN "funds"
    ELSE "await"

PaperBuyWithLevelsApply(pf, s, amountUSD, price, stopLoss, takeProfit) ==
    LET quantity == amountUSD \div price
        existing == pf.positions[s]
        totalQty == existing.quantity + quantity
        newAvgCost == (existing.quantity * existing.avgCost + amountUSD) \div totalQty
        entry == IF existing.held
                 THEN [held |-> TRUE, quantity |-> totalQty, avgCost |-> newAvgCost,
                       stopLoss |-> IF stopLoss # 0 THEN stopLoss ELSE existing.stopLoss,
                       takeProfit |-> IF takeProfit # 0 THEN takeProfit
                                      ELSE existing.takeProfit]
                 ELSE [held |-> TRUE, quantity |-> quantity, avgCost |-> price,
                       stopLoss |-> stopLoss, takeProfit |-> takeProfit]
    IN [pf EXCEPT !.balance = pf.balance - amountUSD,
                  !.positions[s] = entry,
                  !.order = IF existing.held THEN pf.order ELSE Append(pf.order, s),
                  !.trades = Append(pf.trades, BuyTrade(s, quantity, price))]

-----------------------------------------------------------------------------
(* AutoPilot configuration (DEFAULT_CONFIG) *)

DefaultMaxPositions == 5
StopLossPercent == 5
TakeProfitPercent == 10

DefaultConfig ==
    [enabled |-> FALSE, maxPositions |-> DefaultMaxPositions, useDynamicSLTP |-> TRUE,
     stopLossPercent |-> StopLossPercent, takeProfitPercent |-> TakeProfitPercent]

(* loadAutoPilotConfig: the stored fields override the defaults. *)
LoadAutoPilotConfig(savedMaxPositions) ==
    [DefaultConfig EXCEPT !.maxPositions = savedMaxPositions]

(* The same with a stored useDynamicSLTP of false. *)
LoadFixedLevelsConfig(savedMaxPositions) ==
    [LoadAutoPilotConfig(savedMaxPositions) EXCEPT !.useDynamicSLTP = FALSE]

-----------------------------------------------------------------------------
(* autoPilotScan: one record per invocation in flight.                     *)
(*   pc         the await the invocation is suspended at                   *)
(*   canOpenNew line 425, fixed when the scan starts                       *)
(*   todo       the entries the iterator of portfolio.positions (line 428) *)
(*              has still to yield: a Map iterates in insertion order and  *)
(*              sees entries added or deleted while it runs                *)
(*   cur, pos   the symbol being handled and the position object captured  *)
(*   cands      the candidate symbols the entry loop has still to take     *)
(*   amt,sl,tp  trade size and levels of the buy being made                *)
(*   reason     the reason argument of the paperSell being made            *)
(*   entered    the cycle has left its exit loop (line 481 reached)        *)
(*   nExit, nCand  how many positions the cycle has evaluated for exit and *)
(*              how many candidates it has analysed, counted up to CountCap*)
(* A field the code no longer reads at a pc holds its idle value there.    *)

IdleScan ==
    [pc |-> "idle", canOpenNew |-> FALSE, todo |-> <<>>, cur |-> "BTC", pos |-> NoPos,
     qty |-> 0, cands |-> <<>>, amt |-> 0, sl |-> 0, tp |-> 0, entered |-> FALSE,
     nExit |-> 0, nCand |-> 0, reason |-> "none"]

Counted(n) == IF n < CountCap THEN n + 1 ELSE CountCap

ExitPcs == {"exitTicker", "exitSellTicker", "exitKlines", "exitSignalTicker"}
EntryPcs == {"pairs", "entryKlines", "entryValue", "entryTicker", "entryBuyTicker", "delay"}

InFlight == {i \in 1..MaxScans : scans[i].pc # "idle"}

(* The invocations in flight are kept in the order they started; the slot  *)
(* of one that ended is taken by the next.                                  *)
Compact(scs) ==
    LET live == SelectSeq(scs, LAMBDA r : r.pc # "idle")
    IN [i \in 1..MaxScans |-> IF i <= Len(live) THEN live[i] ELSE IdleScan]

(* The Map iterators of the scans in their exit loop follow a change of the *)
(* positions Map from pf to pf2.                                            *)
Retarget(scs, pf, pf2) ==
    LET InSeq(x, seq) == \E k \in 1..Len(seq) : seq[k] = x
        gone(seq) == SelectSeq(seq, LAMBDA x : InSeq(x, pf2.order))
        added == SelectSeq(pf2.order, LAMBDA x : ~InSeq(x, pf.order))
    IN [i \in 1..MaxScans |->
          IF scs[i].pc \in ExitPcs
          THEN [scs[i] EXCEPT !.todo = gone(scs[i].todo) \o added]
          ELSE scs[i]]

(* The entry loop, lines 490-503, from the top of an iteration to its first *)
(* await (the candle fetch) or to the end of the scan.                      *)
RECURSIVE AdvanceEntry(_, _, _)
AdvanceEntry(sc, pf, cfg) ==
    IF sc.cands = <<>> THEN IdleScan
    ELSE IF pf.positions[Head(sc.cands)].held
         THEN AdvanceEntry([sc EXCEPT !.cands = Tail(sc.cands)], pf, cfg)
    ELSE IF Cardinality(Held(pf)) >= cfg.maxPositions THEN IdleScan
    ELSE [IdleScan EXCEPT !.pc = "entryKlines", !.cur = Head(sc.cands),
                          !.cands = Tail(sc.cands), !.entered = TRUE,
                          !.nExit = sc.nExit, !.nCand = Counted(sc.nCand)]

(* After the exit loop: lines 482-486. *)
EnterEntry(sc) ==
    IF sc.canOpenNew
    THEN [IdleScan EXCEPT !.pc = "pairs", !.entered = TRUE, !.nExit = sc.nExit]
    ELSE IdleScan

(* The exit loop, line 428: the iterator yields its next entry, or is done. *)
NextExit(sc, pf) ==
    IF sc.todo = <<>> THEN EnterEntry(sc)
    ELSE [sc EXCEPT !.pc = "exitTicker", !.cur = Head(sc.todo), !.todo = Tail(sc.todo),
                    !.pos = pf.positions[Head(sc.todo)], !.qty = 0,
                    !.reason = "none", !.nExit = Counted(sc.nExit)]

(* Lines 435-464: which exit the fetched price triggers for the captured position. *)
ExitTrigger(cfg, position, currentPrice) ==
    IF cfg.useDynamicSLTP /\ position.stopLoss # 0 /\ position.takeProfit # 0
    THEN IF currentPrice <= position.stopLoss THEN "dynamicSL"
         ELSE IF currentPrice >= position.takeProfit THEN "dynamicTP"
         ELSE "none"
    ELSE IF (currentPrice - position.avgCost) * 100 <= -cfg.stopLossPercent * position.avgCost
         THEN "stopLoss"
    ELSE IF (currentPrice - position.avgCost) * 100 >= cfg.takeProfitPercent * position.avgCost
         THEN "takeProfit"
    ELSE "none"

(* Lines 529-533: getSmartRiskLevels derives the levels from the candles,  *)
(* which the model does not hold; the outcome modelled is a stop below and *)
(* a target above the entry price.                                         *)
RiskLevels(entryPrice) == [stopLoss |-> entryPrice \div 2, takeProfit2 |-> entryPrice * 2]

(* Lines 419-428: the synchronous start of autoPilotScan. *)
BeginScan(pf, cfg) ==
    IF ~pf.live \/ ~cfg.enabled THEN IdleScan
    ELSE NextExit([IdleScan EXCEPT
                      !.canOpenNew = Cardinality(Held(pf)) < cfg.maxPositions,
                      !.todo = pf.order], pf)

-----------------------------------------------------------------------------
(* generateCouncilDecision (analysisService.ts).  The six module votes are  *)
(* computed from indicator series; the model takes what the indicators      *)
(* return at the last candle as the input: the score of Orion, Atlas,       *)
(* Aether, Chronos and Poseidon, the RSI(14) and the stochastic %K from     *)
(* which Hermes computes its score, and the number of candles.              *)

CandleCounts == {49, 50, 200}
ModuleScores == {-30, -18, 12, 30}
RsiValues == {0, 20, 24, 50, 78, 90}
StochasticValues == {10, 90}
MinCandles == 50
Oversold == 24
Overbought == 78
ConsensusVotes == 4
ConfidenceScale == 12

Clamp(lo, hi, x) == IF x < lo THEN lo ELSE IF x > hi THEN hi ELSE x

Direction(score, threshold) ==
    IF score > threshold THEN "buy" ELSE IF score < -threshold THEN "sell" ELSE "hold"

(* x || 50 *)
OrFifty(x) == IF x = 0 THEN 50 ELSE x

(* getHermesVote, lines 147-176: its score. *)
HermesScore(rsiRaw, kRaw) ==
    LET rsi == OrFifty(rsiRaw)
        sk == OrFifty(kRaw)
        base == (50 - rsi) * 2
        low == IF rsi < 30 /\ sk < 20 THEN base + 30 ELSE base
        high == IF rsi > 70 /\ sk > 80 THEN low - 30 ELSE low
    IN Clamp(-100, 100, high)

(* The directions of the seven votes, in the order they are pushed (lines   *)
(* 261-269).  Argus votes on the average of the six scores: avg > 10 is     *)
(* sum > 60.                                                                *)
SumOfSix(inp) ==
    inp.orion + inp.atlas + inp.aether + HermesScore(inp.rsi, inp.k) + inp.chronos
        + inp.poseidon

Votes(inp) ==
    << Direction(inp.orion, 15), Direction(inp.atlas, 20), Direction(inp.aether, 20),
       Direction(HermesScore(inp.rsi, inp.k), 15), Direction(inp.chronos, 20),
       Direction(inp.poseidon, 10), Direction(SumOfSix(inp), 60) >>

CountOf(votes, direction) == Cardinality({k \in 1..Len(votes) : votes[k] = direction})

(* Variant: three votes are enough for a consensus. *)
FinalActionOfThree(rsi, buyVotes, sellVotes) ==
    IF rsi < Oversold THEN "buy"
    ELSE IF rsi > Overbought THEN "sell"
    ELSE IF buyVotes >= ConsensusVotes - 1 THEN "buy"
    ELSE IF sellVotes >= ConsensusVotes - 1 THEN "sell"
    ELSE "hold"

(* Lines 280-299. *)
FinalAction(rsi, buyVotes, sellVotes) ==
    IF rsi < Oversold THEN "buy"
    ELSE IF rsi > Overbought THEN "sell"
    ELSE IF buyVotes >= ConsensusVotes THEN "buy"
    ELSE IF sellVotes >= ConsensusVotes THEN "sell"
    ELSE "hold"

Max(a, b) == IF a > b THEN a ELSE b
Min(a, b) == IF a < b THEN a ELSE b

(* Lines 301-309, in units of 1 / ConfidenceScale: the average of the seven *)
(* scores is the sum of the six divided by 6.                               *)
Confidence(sumOfSix, buyVotes, sellVotes) ==
    LET raw == Abs(sumOfSix) + Max(buyVotes, sellVotes) * 10 * ConfidenceScale
        traded == IF buyVotes >= 4 \/ sellVotes >= 4
                  THEN Max(65 * ConfidenceScale, raw) ELSE raw
        ultra == IF buyVotes >= 6 \/ sellVotes >= 6
                 THEN Max(85 * ConfidenceScale, traded) ELSE traded
    IN Min(100 * ConfidenceScale, ultra)

CreateFallbackDecision == [finalAction |-> "hold", confidence |-> 0, votes |-> <<>>]

GenerateCouncilDecision(inp) ==
    IF inp.candles < MinCandles THEN CreateFallbackDecision
    ELSE LET votes == Votes(inp)
             buyVotes == CountOf(votes, "buy")
             sellVotes == CountOf(votes, "sell")
         IN [finalAction |-> FinalAction(OrFifty(inp.rsi), buyVotes, sellVotes),
             confidence |-> Confidence(SumOfSix(inp), buyVotes, sellVotes),
             votes |-> votes]

CouncilInputs ==
    [candles : CandleCounts, rsi : RsiValues, k : StochasticValues,
     orion : ModuleScores, atlas : ModuleScores, aether : ModuleScores,
     chronos : ModuleScores, poseidon : ModuleScores]

NoCouncil ==
    [pc |-> "none",
     input |-> [candles |-> 0, rsi |-> 0, k |-> 0, orion |-> 0, atlas |-> 0, aether |-> 0,
                chronos |-> 0, poseidon |-> 0],
     decision |-> CreateFallbackDecision]

-----------------------------------------------------------------------------
(* The indicator service (src/unnamed/part_007).  A series is a sequence   *)
(* whose element k + 1 is the element of index k of the array.  Numbers    *)
(* are fixed-point: a price is a whole number of dollars, and what the     *)
(* indicators take and return is in units of 1 / Scale, every division     *)
(* rounded down.  A null element is Null.                                  *)

Scale == 100
Null == -999999

At(series, index) == series[index + 1]

Scaled(values) == [k \in 1..Len(values) |-> values[k] * Scale]

Nulls(n) == [k \in 1..n |-> Null]

(* reduce((a, b) => a + b, 0) over a slice, summed by halves. *)
RECURSIVE SumFromTo(_, _, _)
SumFromTo(values, from, to) ==
    IF from > to THEN 0
    ELSE IF from = to THEN values[from]
    ELSE LET mid == (from + to) \div 2
         IN SumFromTo(values, from, mid) + SumFromTo(values, mid + 1, to)

(* Variant: the loop of calculateSMA starts at index 0 and averages the    *)
(* elements there are.                                                     *)
CalculateSMAFromStart(values, period) ==
    [k \in 1..Len(values) |-> SumFromTo(values, Max(1, k - period + 1), k) \div period]

(* calculateSMA, lines 9-19. *)
CalculateSMA(values, period) ==
    IF Len(values) < period THEN Nulls(Len(values))
    ELSE [k \in 1..Len(values) |->
             IF k < period THEN Null ELSE SumFromTo(values, k - period + 1, k) \div period]

(* calculateEMA, lines 31-34: one pass of the loop, for the next index. *)
EmaStep(values, period, st) ==
    LET k == Len(st.emaValues) + 1
        next == (values[k] * 2 + st.ema * (period - 1)) \div (period + 1)
    IN [ema |-> next, emaValues |-> Append(st.emaValues, next)]

(* Up to n passes of the loop, which ends at the end of the series. *)
RECURSIVE EmaSteps(_, _, _, _)
EmaSteps(values, period, st, n) ==
    IF Len(st.emaValues) >= Len(values) \/ n = 0 THEN st
    ELSE IF n = 1 THEN EmaStep(values, period, st)
    ELSE LET half == EmaSteps(values, period, st, n \div 2)
         IN IF Len(half.emaValues) >= Len(values) THEN half
            ELSE EmaSteps(values, period, half, n - n \div 2)

(* calculateEMA, lines 22-35. *)
CalculateEMA(values, period) ==
    IF Len(values) < period THEN Nulls(Len(values))
    ELSE LET first == SumFromTo(values, 1, period) \div period
         IN EmaSteps(values, period,
                     [ema |-> first, emaValues |-> Append(Nulls(period - 1), first)],
                     Len(values) - period).emaValues

Gain(values, k) == IF values[k] > values[k - 1] THEN values[k] - values[k - 1] ELSE 0
Loss(values, k) == IF values[k] < values[k - 1] THEN values[k - 1] - values[k] ELSE 0

RECURSIVE SumGains(_, _, _)
SumGains(values, from, to) ==
    IF from > to THEN 0 ELSE Gain(values, to) + SumGains(values, from, to - 1)

RECURSIVE SumLosses(_, _, _)
SumLosses(values, from, to) ==
    IF from > to THEN 0 ELSE Loss(values, to) + SumLosses(values, from, to - 1)

(* Lines 55-60 and 71-76: 100 - 100 / (1 + avgGain / avgLoss). *)
RsiOf(avgGain, avgLoss) ==
    IF avgLoss = 0 THEN 100 * Scale
    ELSE (100 * Scale * avgGain) \div (avgGain + avgLoss)

(* Lines 63-77: one pass of the loop of Wilder's smoothing. *)
RsiStep(values, period, st) ==
    LET k == Len(st.rsiValues) + 1
        g == (st.avgGain * (period - 1) + Gain(values, k)) \div period
        l == (st.avgLoss * (period - 1) + Loss(values, k)) \div period
    IN [avgGain |-> g, avgLoss |-> l, rsiValues |-> Append(st.rsiValues, RsiOf(g, l))]

(* Up to n passes of the loop, which ends at the end of the series. *)
RECURSIVE RsiSteps(_, _, _, _)
RsiSteps(values, period, st, n) ==
    IF Len(st.rsiValues) >= Len(values) \/ n = 0 THEN st
    ELSE IF n = 1 THEN RsiStep(values, period, st)
    ELSE LET half == RsiSteps(values, period, st, n \div 2)
         IN IF Len(half.rsiValues) >= Len(values) THEN half
            ELSE RsiSteps(values, period, half, n - n \div 2)

(* calculateRSI, lines 38-81. *)
CalculateRSI(values, period) ==
    IF Len(values) <= period THEN Nulls(Len(values))
    ELSE LET avgGain == SumGains(values, 2, period + 1) \div period
             avgLoss == SumLosses(values, 2, period + 1) \div period
         IN RsiSteps(values, period,
                     [avgGain |-> avgGain, avgLoss |-> avgLoss,
                      rsiValues |-> Append(Nulls(period), RsiOf(avgGain, avgLoss))],
                     Len(values) - period - 1).rsiValues

(* calculateMACD, lines 84-125. *)
CalculateMACDWith(values, fastPeriod, slowPeriod, signalPeriod) ==
    LET fastEMA == CalculateEMA(values, fastPeriod)
        slowEMA == CalculateEMA(values, slowPeriod)
        macdLine == [k \in 1..Len(values) |->
                        IF fastEMA[k] # Null /\ slowEMA[k] # Null
                        THEN fastEMA[k] - slowEMA[k] ELSE Null]
        validMacd == SelectSeq(macdLine, LAMBDA x : x # Null)
        offset == Len(values) - Len(validMacd)
        signalLineValid == CalculateEMA(validMacd, signalPeriod)
        signalLine == [k \in 1..Len(values) |->
                          IF k > offset THEN signalLineValid[k - offset] ELSE Null]
        histogram == [k \in 1..Len(values) |->
                         IF macdLine[k] # Null /\ signalLine[k] # Null
                         THEN macdLine[k] - signalLine[k] ELSE Null]
    IN [macd |-> macdLine, signal |-> signalLine, histogram |-> histogram]

(* calculateMACD with its default periods. *)
CalculateMACD(values) == CalculateMACDWith(values, 12, 26, 9)

(* Math.sqrt, rounded down. *)
RECURSIVE SqrtBetween(_, _, _)
SqrtBetween(x, lo, hi) ==
    IF lo >= hi THEN lo
    ELSE LET mid == (lo + hi + 1) \div 2
         IN IF mid * mid <= x THEN SqrtBetween(x, mid, hi) ELSE SqrtBetween(x, lo, mid - 1)

Sqrt(x) == SqrtBetween(x, 0, 46340)

RECURSIVE SumSquares(_, _, _, _)
SumSquares(values, mean, from, to) ==
    IF from > to THEN 0
    ELSE (values[to] - mean) * (values[to] - mean) + SumSquares(values, mean, from, to - 1)

(* calculateBollingerBands, lines 128-148, with stdDevMultiplier 2. *)
CalculateBollingerBandsWith(values, period) ==
    LET sma == CalculateSMA(values, period)
        stdDev(k) == Sqrt(SumSquares(values, sma[k], k - period + 1, k) \div period)
    IN [upper |-> [k \in 1..Len(values) |->
                      IF k < period THEN Null ELSE sma[k] + stdDev(k) * 2],
        middle |-> sma,
        lower |-> [k \in 1..Len(values) |->
                      IF k < period THEN Null ELSE sma[k] - stdDev(k) * 2]]

(* calculateBollingerBands with its default period. *)
CalculateBollingerBands(values) == CalculateBollingerBandsWith(values, 20)

-----------------------------------------------------------------------------
(* The backtest engine (backtestEngine.ts).  The candles are the sequence   *)
(* of their closes; a date is the index of its candle.  Capital is in       *)
(* dollars and a quantity in units of 1 / QuantityScale, every division     *)
(* rounded down.                                                            *)

MaxTail == 4
FlatBars == 200
StartBar == 50
InitialCapital == 10000
PositionSizePercent == 20
BacktestStopLossPercent == 5
BacktestTakeProfitPercent == 15
CommissionPerMille == 1
QuantityScale == 1000
FlatPrice == 100
TailPrices == {90, 100, 120}

Strategies ==
    {"rsiMeanReversion", "macdCrossover", "bollingerBreakout", "goldenCross",
     "trendFollowing", "argusComposite"}

FlatCandles(n) == [k \in 1..n |-> FlatPrice]
FallingCandles == [k \in 1..StartBar |-> FlatPrice + StartBar + 1 - k]
RisingCandles == [k \in 1..StartBar |-> FlatPrice - 1 + k]

Tails == UNION {[1..m -> TailPrices] : m \in 0..MaxTail}

(* The inputs: fewer than 50 candles, exactly 50, and 50 candles followed  *)
(* by up to MaxTail more; and the flat series of FlatBars candles.         *)
CandleSeries ==
    {FlatCandles(0), FlatCandles(StartBar - 1), FlatCandles(FlatBars)}
        \cup {w \o t : w \in {FlatCandles(StartBar), FallingCandles, RisingCandles},
                       t \in Tails}

(* calculateIndicators, lines 244-257. *)
CalculateIndicators(closes) ==
    LET prices == Scaled(closes)
    IN [rsi |-> CalculateRSI(prices, 14),
        macd |-> CalculateMACD(prices),
        bollinger |-> CalculateBollingerBands(prices),
        sma20 |-> CalculateSMA(prices, 20),
        sma50 |-> CalculateSMA(prices, 50),
        sma200 |-> CalculateSMA(prices, 200)]

NoIndicators ==
    [rsi |-> <<>>, macd |-> [macd |-> <<>>, signal |-> <<>>, histogram |-> <<>>],
     bollinger |-> [upper |-> <<>>, middle |-> <<>>, lower |-> <<>>],
     sma20 |-> <<>>, sma50 |-> <<>>, sma200 |-> <<>>]

(* Lines 336-341: the RSI term of the composite score. *)
RsiPoints(rsi) ==
    IF rsi = Null THEN 0
    ELSE IF rsi < 30 * Scale THEN 2
    ELSE IF rsi < 40 * Scale THEN 1
    ELSE IF rsi > 70 * Scale THEN -2
    ELSE IF rsi > 60 * Scale THEN -1
    ELSE 0

(* Lines 329-358: the score of argusComposite. *)
ArgusScore(index, closes, indicators) ==
    LET price == At(closes, index) * Scale
        macdHist == At(indicators.macd.histogram, index)
        sma20 == At(indicators.sma20, index)
        lower == At(indicators.bollinger.lower, index)
        upper == At(indicators.bollinger.upper, index)
    IN RsiPoints(At(indicators.rsi, index))
         + (IF macdHist = Null THEN 0 ELSE IF macdHist > 0 THEN 1 ELSE -1)
         + (IF sma20 = Null THEN 0 ELSE IF price > sma20 THEN 1 ELSE -1)
         + (IF lower # Null /\ price < lower THEN 2 ELSE 0)
         + (IF upper # Null /\ price > upper THEN -2 ELSE 0)

(* Variant: the thresholds of the composite score with their signs swapped. *)
ArgusSignalInverted(score) ==
    IF score <= -3 THEN "buy" ELSE IF score >= 3 THEN "sell" ELSE "hold"

(* Lines 360-361. *)
ArgusSignal(score) ==
    IF score >= 3 THEN "buy" ELSE IF score <= -3 THEN "sell" ELSE "hold"

(* generateSignal, lines 259-365.  "raise": under macdCrossover line 280   *)
(* reads indicators.macd.macdLine[index], and the object calculateMACD     *)
(* returns has the properties macd, signal and histogram and no macdLine,  *)
(* so the read is that of a property of undefined, a TypeError.            *)
GenerateSignal(index, closes, indicators, strategy) ==
    LET price == At(closes, index) * Scale
        rsi == At(indicators.rsi, index)
        prevRsi == At(indicators.rsi, index - 1)
        upper == At(indicators.bollinger.upper, index)
        lower == At(indicators.bollinger.lower, index)
        sma20 == At(indicators.sma20, index)
        sma50 == At(indicators.sma50, index)
        sma200 == At(indicators.sma200, index)
        prevSma50 == At(indicators.sma50, index - 1)
        prevSma200 == At(indicators.sma200, index - 1)
    IN CASE strategy = "rsiMeanReversion" ->
              IF rsi # Null /\ prevRsi # Null /\ rsi < 30 * Scale /\ prevRsi <= rsi
              THEN "buy"
              ELSE IF rsi # Null /\ prevRsi # Null /\ rsi > 70 * Scale /\ prevRsi >= rsi
              THEN "sell"
              ELSE "hold"
         [] strategy = "macdCrossover" -> "raise"
         [] strategy = "bollingerBreakout" ->
              IF upper # Null /\ lower # Null /\ price < lower THEN "buy"
              ELSE IF upper # Null /\ lower # Null /\ price > upper THEN "sell"
              ELSE "hold"
         [] strategy = "goldenCross" ->
              IF sma50 = Null \/ sma200 = Null \/ prevSma50 = Null \/ prevSma200 = Null
              THEN "hold"
              ELSE IF prevSma50 <= prevSma200 /\ sma50 > sma200 THEN "buy"
              ELSE IF prevSma50 >= prevSma200 /\ sma50 < sma200 THEN "sell"
              ELSE "hold"
         [] strategy = "trendFollowing" ->
              IF sma20 = Null \/ sma50 = Null \/ rsi = Null THEN "hold"
              ELSE IF price > sma20 /\ sma20 > sma50 /\ rsi > 50 * Scale /\ rsi < 70 * Scale
              THEN "buy"
              ELSE IF price < sma20 /\ sma20 < sma50 /\ rsi < 50 * Scale THEN "sell"
              ELSE "hold"
         [] strategy = "argusComposite" -> ArgusSignal(ArgusScore(index, closes, indicators))

NoBacktestPosition == [open |-> FALSE, entryDate |-> 0, entryPrice |-> 0, quantity |-> 0]

NoResult == [finalCapital |-> 0, totalTrades |-> 0, trades |-> <<>>, signals |-> <<>>]

(* createEmptyResult, lines 403-427. *)
CreateEmptyResult ==
    [finalCapital |-> InitialCapital, totalTrades |-> 0, trades |-> <<>>, signals |-> <<>>]

(*   pc        "call" before the call, "loop" in the loop of line 99,       *)
(*             "returned" and "raised" after the call                       *)
(*   i         the loop index                                               *)
(*   opened    how many positions the run has opened                        *)
NoBacktest ==
    [pc |-> "none", candles |-> <<>>, strategy |-> "argusComposite",
     indicators |-> NoIndicators, i |-> 0, capital |-> 0, position |-> NoBacktestPosition,
     trades |-> <<>>, signals |-> <<>>, opened |-> 0, result |-> NoResult]

(* Lines 73-97. *)
BeginBacktest(b) ==
    IF Len(b.candles) < StartBar
    THEN [b EXCEPT !.pc = "returned", !.result = CreateEmptyResult]
    ELSE [b EXCEPT !.pc = "loop", !.i = StartBar, !.capital = InitialCapital,
                   !.indicators = CalculateIndicators(b.candles)]

(* Lines 126-141. *)
OpenPosition(b, price) ==
    LET positionCapital == (b.capital * PositionSizePercent) \div 100
        quantity == (positionCapital * QuantityScale) \div price
        commission == (positionCapital * CommissionPerMille) \div 1000
    IN [b EXCEPT !.capital = b.capital - commission,
                 !.position = [open |-> TRUE, entryDate |-> b.i, entryPrice |-> price,
                               quantity |-> quantity],
                 !.signals = Append(b.signals, [date |-> b.i, type |-> "buy"]),
                 !.opened = b.opened + 1]

(* Lines 144-153. *)
ExitReason(position, price, signal) ==
    IF signal = "sell" THEN "signal"
    ELSE IF (price - position.entryPrice) * 100 <= -BacktestStopLossPercent * position.entryPrice
    THEN "Stop Loss"
    ELSE IF (price - position.entryPrice) * 100 >= BacktestTakeProfitPercent * position.entryPrice
    THEN "Take Profit"
    ELSE "none"

CompletedTrade(position, date, price, pnl, exitReason) ==
    [entryDate |-> position.entryDate, entryPrice |-> position.entryPrice,
     quantity |-> position.quantity, exitDate |-> date, exitPrice |-> price, pnl |-> pnl,
     exitReason |-> exitReason]

(* Lines 155-175. *)
ClosePosition(b, price, exitReason) ==
    LET position == b.position
        exitValue == (position.quantity * price) \div QuantityScale
        commission == (exitValue * CommissionPerMille) \div 1000
        pnl == ((price - position.entryPrice) * position.quantity) \div QuantityScale
                 - commission
    IN [b EXCEPT !.capital = b.capital
                               + (position.quantity * position.entryPrice) \div QuantityScale
                               + pnl,
                 !.trades = Append(b.trades,
                                   CompletedTrade(position, b.i, price, pnl, exitReason)),
                 !.signals = Append(b.signals, [date |-> b.i, type |-> "sell"]),
                 !.position = NoBacktestPosition]

(* Variant: a buy signal opens a position whether or not one is open. *)
BacktestBarOpensWhileOpen(b) ==
    LET price == At(b.candles, b.i)
        signal == GenerateSignal(b.i, b.candles, b.indicators, b.strategy)
        done == IF signal = "buy" THEN OpenPosition(b, price)
                ELSE IF b.position.open /\ ExitReason(b.position, price, signal) # "none"
                THEN ClosePosition(b, price, ExitReason(b.position, price, signal))
                ELSE b
    IN IF signal = "raise" THEN [b EXCEPT !.pc = "raised"]
       ELSE [done EXCEPT !.i = b.i + 1]

(* One pass of the loop, lines 99-177. *)
BacktestBar(b) ==
    LET price == At(b.candles, b.i)
        signal == GenerateSignal(b.i, b.candles, b.indicators, b.strategy)
        done == IF ~b.position.open /\ signal = "buy" THEN OpenPosition(b, price)
                ELSE IF b.position.open /\ ExitReason(b.position, price, signal) # "none"
                THEN ClosePosition(b, price, ExitReason(b.position, price, signal))
                ELSE b
    IN IF signal = "raise" THEN [b EXCEPT !.pc = "raised"]
       ELSE [done EXCEPT !.i = b.i + 1]

(* Variant: a position still open after the loop is left open. *)
CloseRemainingNot(b) == b

(* Lines 179-195. *)
CloseRemaining(b) ==
    LET position == b.position
        lastPrice == At(b.candles, Len(b.candles) - 1)
        pnl == ((lastPrice - position.entryPrice) * position.quantity) \div QuantityScale
    IN IF ~position.open THEN b
       ELSE [b EXCEPT !.capital = b.capital
                                    + (position.quantity * position.entryPrice)
                                          \div QuantityScale
                                    + pnl,
                      !.trades = Append(b.trades,
                                        CompletedTrade(position, Len(b.candles) - 1, lastPrice,
                                                       pnl, "End of Backtest")),
                      !.position = NoBacktestPosition]

(* Lines 179-242: the end of runBacktest.  Line 222 reads candles[50].date, *)
(* a TypeError when there are exactly 50 candles.                           *)
EndBacktest(b) ==
    LET closed == CloseRemaining(b)
    IN IF Len(b.candles) <= StartBar THEN [closed EXCEPT !.pc = "raised"]
       ELSE [closed EXCEPT !.pc = "returned",
                           !.result = [finalCapital |-> closed.capital,
                                       totalTrades |-> Len(closed.trades),
                                       trades |-> closed.trades,
                                       signals |-> closed.signals]]

-----------------------------------------------------------------------------
(* The risk management service (src/unnamed/part_008) and calculateATR     *)
(* (src/unnamed/part_007).  A candle is a record of its high, low and      *)
(* close; prices are in units of 1 / Scale dollars and every division is   *)
(* rounded down.  undefined is Null.                                       *)

MaxRiskTail == 5
BaseCandles == 15

Max3(a, b, c) == Max(a, Max(b, c))

(* x || y *)
Or(x, y) == IF x = Null \/ x = 0 THEN y ELSE x

(* calculateATR, lines 156-169: trValues[k - 1]. *)
TrueRange(candles, k) ==
    IF k = 1 THEN candles[1].high - candles[1].low
    ELSE Max3(candles[k].high - candles[k].low,
              Abs(candles[k].high - candles[k - 1].close),
              Abs(candles[k].low - candles[k - 1].close))

RECURSIVE SumTrueRange(_, _, _)
SumTrueRange(candles, from, to) ==
    IF from > to THEN 0
    ELSE IF from = to THEN TrueRange(candles, from)
    ELSE LET mid == (from + to) \div 2
         IN SumTrueRange(candles, from, mid) + SumTrueRange(candles, mid + 1, to)

(* calculateATR, lines 176-179: one pass of the smoothing loop. *)
AtrStep(candles, period, st) ==
    LET k == Len(st.atrValues) + 1
        next == (st.atr * (period - 1) + TrueRange(candles, k)) \div period
    IN [atr |-> next, atrValues |-> Append(st.atrValues, next)]

(* Up to n passes of the loop, which ends at the end of the series. *)
RECURSIVE AtrSteps(_, _, _, _)
AtrSteps(candles, period, st, n) ==
    IF Len(st.atrValues) >= Len(candles) \/ n = 0 THEN st
    ELSE IF n = 1 THEN AtrStep(candles, period, st)
    ELSE LET half == AtrSteps(candles, period, st, n \div 2)
         IN IF Len(half.atrValues) >= Len(candles) THEN half
            ELSE AtrSteps(candles, period, half, n - n \div 2)

(* calculateATR, lines 151-182. *)
CalculateATR(candles, period) ==
    IF Len(candles) <= period THEN Nulls(Len(candles))
    ELSE LET first == SumTrueRange(candles, 1, period) \div period
         IN AtrSteps(candles, period,
                     [atr |-> first, atrValues |-> Append(Nulls(period - 1), first)],
                     Len(candles) - period).atrValues

(* array.slice(-n) *)
LastOf(seq, n) == IF Len(seq) <= n THEN seq ELSE SubSeq(seq, Len(seq) - n + 1, Len(seq))

RECURSIVE SumCloses(_)
SumCloses(candles) ==
    IF candles = <<>> THEN 0 ELSE Head(candles).close + SumCloses(Tail(candles))

(* Lines 42-48: atrPercent = currentATR / (sum / 14) * 100 against 2 and 5; *)
(* with no candle the division is by zero and no comparison holds.          *)
VolatilityLevel(candles, currentATR) ==
    LET sum == SumCloses(LastOf(candles, 14))
    IN IF sum = 0 THEN "high"
       ELSE IF currentATR * 1400 < 2 * sum THEN "low"
       ELSE IF currentATR * 1400 < 5 * sum THEN "medium"
       ELSE "high"

(* Lines 51-60, in hundredths: atrMultiplierSL 2.0 and atrMultiplierTP 3.0. *)
AdjustedSLMult(volatilityLevel) ==
    IF volatilityLevel = "high" THEN 160 ELSE IF volatilityLevel = "low" THEN 240 ELSE 200

AdjustedTPMult(volatilityLevel) ==
    IF volatilityLevel = "high" THEN 360 ELSE IF volatilityLevel = "low" THEN 270 ELSE 300

(* Math.abs((a - b) / entryPrice) * 100, in units of 1 / Scale percent. *)
PercentOf(a, b, entryPrice) == (Abs(a - b) * 100 * Scale) \div entryPrice

(* takeProfitPercent / stopLossPercent: Infinity or NaN (Null) over zero. *)
RiskReward(takeProfitPercent, stopLossPercent) ==
    IF stopLossPercent = 0 THEN Null ELSE (takeProfitPercent * Scale) \div stopLossPercent

(* calculateDynamicRiskLevels, lines 30-96, with its default multipliers. *)
CalculateDynamicRiskLevels(candles, entryPrice, direction) ==
    LET atrValues == CalculateATR(candles, 14)
        lastATR == IF candles = <<>> THEN Null ELSE atrValues[Len(atrValues)]
        currentATR == Or(lastATR, (entryPrice * 2) \div 100)
        volatilityLevel == VolatilityLevel(candles, currentATR)
        sl == (currentATR * AdjustedSLMult(volatilityLevel)) \div 100
        tp1 == (currentATR * AdjustedTPMult(volatilityLevel)) \div 200
        tp2 == (currentATR * AdjustedTPMult(volatilityLevel)) \div 100
        tp3 == (currentATR * AdjustedTPMult(volatilityLevel) * 3) \div 200
        sign == IF direction = "long" THEN 1 ELSE -1
        stopLoss == entryPrice - sign * sl
        takeProfit2 == entryPrice + sign * tp2
        stopLossPercent == PercentOf(entryPrice, stopLoss, entryPrice)
        takeProfitPercent == PercentOf(takeProfit2, entryPrice, entryPrice)
    IN [entryPrice |-> entryPrice,
        stopLoss |-> stopLoss,
        takeProfit1 |-> entryPrice + sign * tp1,
        takeProfit2 |-> takeProfit2,
        takeProfit3 |-> entryPrice + sign * tp3,
        stopLossPercent |-> stopLossPercent,
        takeProfitPercent |-> takeProfitPercent,
        riskRewardRatio |-> RiskReward(takeProfitPercent, stopLossPercent),
        atrValue |-> currentATR,
        volatilityLevel |-> volatilityLevel]

(* [...new Set(levels)].sort((a, b) => b - a) and .sort((a, b) => a - b) *)
RECURSIVE SortedDown(_)
SortedDown(S) ==
    IF S = {} THEN <<>>
    ELSE LET m == CHOOSE x \in S : \A y \in S : y <= x
         IN <<m>> \o SortedDown(S \ {m})

RECURSIVE SortedUp(_)
SortedUp(S) ==
    IF S = {} THEN <<>>
    ELSE LET m == CHOOSE x \in S : \A y \in S : y >= x
         IN <<m>> \o SortedUp(S \ {m})

(* array.find(test), array[0], array[array.length - 1], array.slice(0, n) *)
Find(seq, Test(_)) ==
    LET found == SelectSeq(seq, Test) IN IF found = <<>> THEN Null ELSE found[1]

First(seq) == IF seq = <<>> THEN Null ELSE seq[1]
Last(seq) == IF seq = <<>> THEN Null ELSE seq[Len(seq)]
Take(seq, n) == IF Len(seq) <= n THEN seq ELSE SubSeq(seq, 1, n)

(* Lines 139-149: the tests of the loop for index i - 1. *)
IsSwingHigh(c, i) ==
    /\ c[i].high > c[i - 1].high /\ c[i].high > c[i - 2].high
    /\ c[i].high > c[i + 1].high /\ c[i].high > c[i + 2].high

IsSwingLow(c, i) ==
    /\ c[i].low < c[i - 1].low /\ c[i].low < c[i - 2].low
    /\ c[i].low < c[i + 1].low /\ c[i].low < c[i + 2].low

(* getSupportResistanceLevels, lines 119-172, for at least one candle. *)
GetSupportResistanceLevels(candles, lookback) ==
    LET recentCandles == LastOf(candles, lookback)
        n == Len(recentCandles)
        swingHighs == {recentCandles[i].high : i \in {j \in 3..(n - 2) : IsSwingHigh(recentCandles, j)}}
        swingLows == {recentCandles[i].low : i \in {j \in 3..(n - 2) : IsSwingLow(recentCandles, j)}}
        lastCandle == recentCandles[n]
        supports == SortedDown(swingLows)
        resistances == SortedUp(swingHighs)
        currentPrice == lastCandle.close
    IN [supports |-> Take(supports, 5),
        resistances |-> Take(resistances, 5),
        pivotPoint |-> (lastCandle.high + lastCandle.low + lastCandle.close) \div 3,
        nearestSupport |->
            Or(Or(Find(supports, LAMBDA x : x < currentPrice), First(supports)),
               (currentPrice * 95) \div 100),
        nearestResistance |->
            Or(Or(Find(resistances, LAMBDA x : x > currentPrice), Last(resistances)),
               (currentPrice * 105) \div 100)]

(* getSmartRiskLevels, lines 214-255: the levels returned for the ATR       *)
(* levels and the support and resistance levels of lines 207-212.          *)
SmartLevels(atrLevels, srLevels, entryPrice, direction) ==
    LET support == srLevels.nearestSupport
        resistance == srLevels.nearestResistance
        supportSL == support > atrLevels.stopLoss /\ support < entryPrice
        resistanceTP == resistance < atrLevels.takeProfit2 /\ resistance > entryPrice
        resistanceSL == resistance < atrLevels.stopLoss /\ resistance > entryPrice
        supportTP == support > atrLevels.takeProfit2 /\ support < entryPrice
        smartSL == IF direction = "long"
                   THEN (IF supportSL THEN (support * 995) \div 1000 ELSE atrLevels.stopLoss)
                   ELSE (IF resistanceSL THEN (resistance * 1005) \div 1000
                         ELSE atrLevels.stopLoss)
        smartTP == IF direction = "long"
                   THEN (IF resistanceTP THEN (resistance * 995) \div 1000
                         ELSE atrLevels.takeProfit2)
                   ELSE (IF supportTP THEN (support * 1005) \div 1000
                         ELSE atrLevels.takeProfit2)
        stopLossPercent == PercentOf(entryPrice, smartSL, entryPrice)
        takeProfitPercent == PercentOf(smartTP, entryPrice, entryPrice)
    IN [atrLevels EXCEPT !.stopLoss = smartSL,
                         !.takeProfit2 = smartTP,
                         !.stopLossPercent = stopLossPercent,
                         !.takeProfitPercent = takeProfitPercent,
                         !.riskRewardRatio = RiskReward(takeProfitPercent, stopLossPercent)]

(* getSmartRiskLevels, lines 200-256, for at least one candle. *)
GetSmartRiskLevels(candles, entryPrice, direction) ==
    SmartLevels(CalculateDynamicRiskLevels(candles, entryPrice, direction),
                GetSupportResistanceLevels(candles, 100), entryPrice, direction)

NoRiskLevels ==
    [entryPrice |-> 0, stopLoss |-> 0, takeProfit1 |-> 0, takeProfit2 |-> 0,
     takeProfit3 |-> 0, stopLossPercent |-> 0, takeProfitPercent |-> 0,
     riskRewardRatio |-> 0, atrValue |-> 0, volatilityLevel |-> "low"]

(* A call of one of the two functions.  getSupportResistanceLevels reads    *)
(* lastCandle.high (line 154): with no candle lastCandle is undefined and   *)
(* the read raises a TypeError.                                             *)
RiskCall(fn, candles, entryPrice, direction) ==
    IF fn = "calculateDynamicRiskLevels"
    THEN [pc |-> "returned",
          levels |-> CalculateDynamicRiskLevels(candles, entryPrice, direction)]
    ELSE IF candles = <<>> THEN [pc |-> "raised", levels |-> NoRiskLevels]
    ELSE [pc |-> "returned", levels |-> GetSmartRiskLevels(candles, entryPrice, direction)]

(* The candles of the inputs: a range of 20 dollars around 1000, a candle   *)
(* whose high stands out and one whose low stands out.                      *)
BaseCandle == [high |-> 1010 * Scale, low |-> 990 * Scale, close |-> 1000 * Scale]
PeakCandle == [BaseCandle EXCEPT !.high = 1030 * Scale]
DipCandle == [BaseCandle EXCEPT !.low = 970 * Scale]

RiskTails == UNION {[1..m -> {BaseCandle, PeakCandle, DipCandle}] : m \in 0..MaxRiskTail}

RiskCandles ==
    {<<>>, <<BaseCandle, PeakCandle, DipCandle>>}
        \cup {[k \in 1..BaseCandles |-> BaseCandle] \o t : t \in RiskTails}

EntryPrices == {975 * Scale, 1000 * Scale, 1025 * Scale}

RiskFunctions == {"calculateDynamicRiskLevels", "getSmartRiskLevels"}

NoRisk ==
    [pc |-> "none", fn |-> "getSmartRiskLevels", candles |-> <<>>, entryPrice |-> 0,
     direction |-> "long", levels |-> NoRiskLevels]

-----------------------------------------------------------------------------
(* The indicators computed from candles (src/unnamed/part_007, lines       *)
(* 184-325).  A number that is NaN is NaN.                                 *)

NaN == -888888

Closes(candles) == [k \in 1..Len(candles) |-> candles[k].close]

RECURSIVE LowestLow(_, _, _)
LowestLow(candles, from, to) ==
    IF from = to THEN candles[from].low
    ELSE Min(candles[to].low, LowestLow(candles, from, to - 1))

RECURSIVE HighestHigh(_, _, _)
HighestHigh(candles, from, to) ==
    IF from = to THEN candles[from].high
    ELSE Max(candles[to].high, HighestHigh(candles, from, to - 1))

(* How many elements of series[from..to] are not null. *)
CountValid(series, from, to) == Cardinality({k \in from..to : series[k] # Null})

(* calculateStochastic, lines 185-217. *)
CalculateStochastic(candles, kPeriod, dPeriod) ==
    LET n == Len(candles)
        lowest(k) == LowestLow(candles, k - kPeriod + 1, k)
        highest(k) == HighestHigh(candles, k - kPeriod + 1, k)
        kValues == [k \in 1..n |->
                       IF k < kPeriod THEN Null
                       ELSE IF highest(k) # lowest(k)
                            THEN ((candles[k].close - lowest(k)) * 100 * Scale)
                                     \div (highest(k) - lowest(k))
                       ELSE 50 * Scale]
        dValues == [k \in 1..n |->
                       IF k < kPeriod + dPeriod - 1 THEN Null
                       ELSE IF CountValid(kValues, k - dPeriod + 1, k) = dPeriod
                            THEN SumFromTo(kValues, k - dPeriod + 1, k) \div dPeriod
                       ELSE Null]
    IN IF n < kPeriod THEN [k |-> Nulls(n), d |-> Nulls(n)]
       ELSE [k |-> kValues, d |-> dValues]

RECURSIVE SumDeviations(_, _, _, _)
SumDeviations(values, mean, from, to) ==
    IF from > to THEN 0
    ELSE Abs(values[to] - mean) + SumDeviations(values, mean, from, to - 1)

(* calculateCCI, lines 220-238. *)
CalculateCCI(candles, period) ==
    LET n == Len(candles)
        typicalPrices == [k \in 1..n |->
                             (candles[k].high + candles[k].low + candles[k].close) \div 3]
        sma == CalculateSMA(typicalPrices, period)
        meanDeviation(k) ==
            SumDeviations(typicalPrices, sma[k], k - period + 1, k) \div period
    IN IF n < period THEN Nulls(n)
       ELSE [k \in 1..n |->
                IF k < period \/ meanDeviation(k) = 0 THEN Null
                ELSE ((typicalPrices[k] - sma[k]) * 1000 * Scale) \div (15 * meanDeviation(k))]

(* calculateADX, lines 249-273: plusDM and minusDM of the candle of index k - 1. *)
PlusDM(candles, k) ==
    IF k = 1 THEN 0
    ELSE LET upMove == candles[k].high - candles[k - 1].high
             downMove == candles[k - 1].low - candles[k].low
         IN IF upMove > downMove /\ upMove > 0 THEN upMove ELSE 0

MinusDM(candles, k) ==
    IF k = 1 THEN 0
    ELSE LET upMove == candles[k].high - candles[k - 1].high
             downMove == candles[k - 1].low - candles[k].low
         IN IF downMove > upMove /\ downMove > 0 THEN downMove ELSE 0

(* Lines 279-281: the loop of smooth. *)
RECURSIVE SmoothFrom(_, _, _)
SmoothFrom(values, period, smoothed) ==
    IF Len(smoothed) >= Len(values) THEN smoothed
    ELSE LET prev == smoothed[Len(smoothed)]
         IN SmoothFrom(values, period,
                       Append(smoothed,
                              prev - prev \div period + values[Len(smoothed) + 1]))

(* Lines 276-283: smooth, for more than period values. *)
Smooth(values, period) ==
    SmoothFrom(values, period,
               Append([k \in 1..period |-> 0], SumFromTo(values, 1, period + 1)))

(* Lines 291-294: the DX of one candle; a division by a zero smoothed true  *)
(* range gives NaN.                                                         *)
DX(plusDMSmooth, minusDMSmooth, trSmooth) ==
    IF trSmooth = 0 THEN NaN
    ELSE LET plusDI == (plusDMSmooth * 100 * Scale) \div trSmooth
             minusDI == (minusDMSmooth * 100 * Scale) \div trSmooth
             diSum == plusDI + minusDI
         IN IF diSum # 0 THEN (Abs(plusDI - minusDI) * 100 * Scale) \div diSum ELSE 0

(* calculateADX, lines 241-306. *)
CalculateADX(candles, period) ==
    LET n == Len(candles)
        trSmooth == Smooth([k \in 1..n |-> TrueRange(candles, k)], period)
        plusDMSmooth == Smooth([k \in 1..n |-> PlusDM(candles, k)], period)
        minusDMSmooth == Smooth([k \in 1..n |-> MinusDM(candles, k)], period)
        dx == [k \in 1..n |->
                  IF k <= period THEN 0
                  ELSE DX(plusDMSmooth[k], minusDMSmooth[k], trSmooth[k])]
    IN IF n <= period * 2 THEN Nulls(n)
       ELSE [k \in 1..n |->
                IF k <= period * 2 THEN Null
                ELSE IF \E j \in (k - period)..(k - 1) : dx[j] = NaN THEN NaN
                ELSE SumFromTo(dx, k - period, k - 1) \div period]

(* calculateWilliamsR, lines 309-325. *)
CalculateWilliamsR(candles, period) ==
    LET n == Len(candles)
        lowest(k) == LowestLow(candles, k - period + 1, k)
        highest(k) == HighestHigh(candles, k - period + 1, k)
    IN IF n < period THEN Nulls(n)
       ELSE [k \in 1..n |->
                IF k < period \/ highest(k) = lowest(k) THEN Null
                ELSE -(((highest(k) - candles[k].close) * 100 * Scale)
                          \div (highest(k) - lowest(k)))]

(* A call of an indicator function: the series it returns, in the order of *)
(* the properties of the object returned.  calculateMACD is called with     *)
(* the periods (period, 2 * period, period), calculateStochastic with       *)
(* (period, 3).                                                             *)
MaxLength == 8
MaxPeriod == 4

IndicatorFunctions ==
    {"calculateSMA", "calculateEMA", "calculateRSI", "calculateMACD",
     "calculateBollingerBands", "calculateATR", "calculateStochastic", "calculateCCI",
     "calculateADX", "calculateWilliamsR"}

IndicatorCall(fn, candles, period) ==
    CASE fn = "calculateSMA" -> <<CalculateSMA(Closes(candles), period)>>
      [] fn = "calculateEMA" -> <<CalculateEMA(Closes(candles), period)>>
      [] fn = "calculateRSI" -> <<CalculateRSI(Closes(candles), period)>>
      [] fn = "calculateMACD" ->
           LET r == CalculateMACDWith(Closes(candles), period, 2 * period, period)
           IN <<r.macd, r.signal, r.histogram>>
      [] fn = "calculateBollingerBands" ->
           LET r == CalculateBollingerBandsWith(Closes(candles), period)
           IN <<r.upper, r.middle, r.lower>>
      [] fn = "calculateATR" -> <<CalculateATR(candles, period)>>
      [] fn = "calculateStochastic" ->
           LET r == CalculateStochastic(candles, period, 3) IN <<r.k, r.d>>
      [] fn = "calculateCCI" -> <<CalculateCCI(candles, period)>>
      [] fn = "calculateADX" -> <<CalculateADX(candles, period)>>
      [] fn = "calculateWilliamsR" -> <<CalculateWilliamsR(candles, period)>>

(* The candles of the inputs: one without range and one with. *)
FlatCandle == [high |-> 100 * Scale, low |-> 100 * Scale, close |-> 100 * Scale]
UpCandle == [high |-> 106 * Scale, low |-> 102 * Scale, close |-> 104 * Scale]

IndicatorCandles == UNION {[1..n -> {FlatCandle, UpCandle}] : n \in 0..MaxLength}

NoIndicator ==
    [pc |-> "none", fn |-> "calculateSMA", candles |-> <<>>, period |-> 1, result |-> <<>>]

-----------------------------------------------------------------------------
(* The alert service (alertService.ts).  An alert object is a record; the  *)
(* array alerts and the activeAlerts a run of checkAlerts has captured     *)
(* hold references to objects, which are indices into objects.  The id of  *)
(* an alert is its number in creation order, and a notification carries    *)
(* the id of the alert its message describes.                              *)

MaxAlerts == 2
MaxObjects == 3
MaxChecks == 2
KeepNotifications == 50
AlertSymbol == "BTCUSDT"
AlertPrices == {1, 3}
TargetPrice == 2
Conditions == {"above", "below"}

NoAlertObject ==
    [id |-> 0, symbol |-> AlertSymbol, targetPrice |-> 0, condition |-> "above",
     triggered |-> FALSE]

IdleCheck == [pc |-> "idle", activeAlerts |-> <<>>]

(*   alerts              the array alerts, of references                   *)
(*   objects, made       the alert objects made so far                     *)
(*   created             how many alerts createAlert has made              *)
(*   notifications       the array notifications, newest first             *)
(*   alertCheckInterval  whether the interval timer is set                 *)
(*   checks              the runs of checkAlerts: pc is "import" at the    *)
(*                       await of line 234, "tickers" at that of line 240  *)
(*   price_alerts        localStorage 'price_alerts'; a key never written  *)
(*                       and a stored empty array both load as no alerts   *)
NoAlerts ==
    [alerts |-> <<>>, objects |-> [o \in 1..MaxObjects |-> NoAlertObject], made |-> 0,
     created |-> 0, notifications |-> <<>>, alertCheckInterval |-> FALSE,
     checks |-> [k \in 1..MaxChecks |-> IdleCheck], price_alerts |-> <<>>]

(* loadAlerts, lines 35-49: JSON.parse makes new objects. *)
LoadAlerts(a) ==
    LET n == Len(a.price_alerts)
    IN [a EXCEPT !.objects = [o \in 1..MaxObjects |->
                                 IF a.made < o /\ o <= a.made + n
                                 THEN a.price_alerts[o - a.made]
                                 ELSE a.objects[o]],
                 !.alerts = [k \in 1..n |-> a.made + k],
                 !.made = a.made + n]

(* saveAlerts, lines 67-69. *)
SaveAlerts(a) ==
    [a EXCEPT !.price_alerts = [k \in 1..Len(a.alerts) |-> a.objects[a.alerts[k]]]]

(* createNotification, lines 155-185. *)
CreateNotification(a, alert) ==
    LET all == <<[type |-> "alert", symbol |-> alert.symbol, alert |-> alert.id]>>
                   \o a.notifications
    IN [a EXCEPT !.notifications = IF Len(all) > KeepNotifications
                                   THEN SubSeq(all, 1, KeepNotifications)
                                   ELSE all]

(* Lines 246-252. *)
AlertTriggered(alert, quote) ==
    \/ alert.condition = "above" /\ quote >= alert.targetPrice
    \/ alert.condition = "below" /\ quote <= alert.targetPrice

(* The loop of lines 242-267 over the captured activeAlerts. *)
RECURSIVE CheckLoop(_, _, _)
CheckLoop(a, activeAlerts, quote) ==
    IF activeAlerts = <<>> THEN a
    ELSE LET o == Head(activeAlerts)
             alert == a.objects[o]
         IN CheckLoop(IF quote # NoTicker /\ AlertTriggered(alert, quote)
                      THEN CreateNotification([a EXCEPT !.objects[o].triggered = TRUE], alert)
                      ELSE a,
                      Tail(activeAlerts), quote)

FreeChecks(a) == {k \in 1..MaxChecks : a.checks[k].pc = "idle"}
FreeCheck(a) == CHOOSE k \in FreeChecks(a) : \A j \in FreeChecks(a) : k <= j

(* checkAlerts up to its first await, lines 231-234. *)
CheckAlertsCall(a) ==
    IF a.alerts = <<>> THEN a
    ELSE [a EXCEPT !.checks[FreeCheck(a)] = [pc |-> "import", activeAlerts |-> <<>>]]

(* The alerts a previous session has left in localStorage. *)
StoredAlerts ==
    {<<>>} \cup {<<[id |-> 1, symbol |-> AlertSymbol, targetPrice |-> TargetPrice,
                    condition |-> c, triggered |-> FALSE]>> : c \in Conditions}

-----------------------------------------------------------------------------
(* BinanceWebSocket (websocketService.ts).  The sockets the instance has   *)
(* made are numbered; ws is the number of the socket it refers to, 0 for   *)
(* null.  The handlers of every socket stay attached until it has closed.  *)

MaxSockets == 7
MaxReconnectAttempts == 5
MaxSubscribers == 1

(*   sockets    the readyState of each socket made, "none" before          *)
(*   timers     the pending setTimeout(() => this.connect()) callbacks     *)
(*   final      disconnect() has been called on an open connection         *)
NoSocket ==
    [sockets |-> [s \in 1..MaxSockets |-> "none"], made |-> 0, ws |-> 0,
     reconnectAttempts |-> 0, isConnecting |-> FALSE, timers |-> 0,
     subscribers |-> 0, tickerData |-> NoTicker, final |-> FALSE]

(* connect, lines 28-107.  throws: new WebSocket raises, and the catch of  *)
(* line 103 clears isConnecting.                                           *)
Connect(k, throws) ==
    IF k.isConnecting \/ (k.ws # 0 /\ k.sockets[k.ws] = "open") THEN k
    ELSE IF throws THEN k
    ELSE [k EXCEPT !.isConnecting = TRUE, !.made = k.made + 1, !.ws = k.made + 1,
                   !.sockets[k.made + 1] = "connecting"]

(* The onclose handler, lines 91-102. *)
OnClose(k) ==
    LET closed == [k EXCEPT !.isConnecting = FALSE, !.ws = 0]
    IN IF k.reconnectAttempts < MaxReconnectAttempts
       THEN [closed EXCEPT !.reconnectAttempts = k.reconnectAttempts + 1,
                           !.timers = k.timers + 1]
       ELSE closed

(* disconnect, lines 134-140. *)
Disconnect(k) ==
    IF k.ws # 0
    THEN [k EXCEPT !.sockets[k.ws] = IF @ \in {"connecting", "open"} THEN "closing" ELSE @,
                   !.ws = 0, !.subscribers = 0,
                   !.final = k.final \/ k.sockets[k.ws] = "open"]
    ELSE [k EXCEPT !.subscribers = 0]

-----------------------------------------------------------------------------
(* The state after the module is loaded: no portfolio, the default         *)
(* configuration with what the browser storage overrides, no timer.        *)

ModuleLoaded(cfg, quota) ==
    /\ portfolio = NullPortfolio
    /\ config = cfg
    /\ storage = [paper_portfolio |-> NoSnapshot, autopilot_config |-> cfg, quota |-> quota]
    /\ isRunning = FALSE
    /\ intervalId = FALSE
    /\ ops = [k \in 1..MaxOps |-> IdleOp]
    /\ scans = [i \in 1..MaxScans |-> IdleScan]
    /\ last = Step

Init ==
    /\ \E env \in Environments :
          /\ env.maxPositions \in StoredMaxPositions
          /\ ModuleLoaded(LoadAutoPilotConfig(env.maxPositions), env.quota)
    /\ council = NoCouncil
    /\ backtest = NoBacktest
    /\ risk = NoRisk
    /\ indicator = NoIndicator
    /\ alerts = NoAlerts
    /\ socket = NoSocket

FreeOp == CHOOSE k \in 1..MaxOps : ops[k].kind = "idle" /\ \A j \in 1..(k - 1) : ops[j].kind # "idle"
FreeScan == CHOOSE i \in 1..MaxScans : scans[i].pc = "idle" /\ \A j \in 1..(i - 1) : scans[j].pc # "idle"
HasFreeOp == \E k \in 1..MaxOps : ops[k].kind = "idle"
HasFreeScan == \E i \in 1..MaxScans : scans[i].pc = "idle"
Room == Len(portfolio.trades) < MaxTrades

(* The portfolio becomes pf2; the iterators of the scans in flight follow. *)
Commit(pf2, throws) ==
    /\ throws = QuotaExceeded(storage, pf2)
    /\ portfolio' = pf2
    /\ storage' = SavePaperPortfolio(storage, pf2, throws)
    /\ scans' = Compact(Retarget(scans, portfolio, pf2))

-----------------------------------------------------------------------------
(* initializePaperPortfolio, as AutoPilotView calls it on mount when        *)
(* getPaperPortfolio finds nothing in memory and nothing stored             *)

InitializePaperPortfolio(throws) ==
    /\ ~portfolio.live
    /\ ~storage.paper_portfolio.present
    /\ throws = QuotaExceeded(storage, NewPortfolio(StartBalance))
    /\ portfolio' = NewPortfolio(StartBalance)
    /\ storage' = SavePaperPortfolio(storage, NewPortfolio(StartBalance), throws)
    /\ last' = Step
    /\ UNCHANGED <<config, isRunning, intervalId, ops, scans, council, backtest, risk, indicator,
                 alerts, socket>>

-----------------------------------------------------------------------------
(* Manual paperBuy (CockpitView.handleManualBuy): the call up to its await, *)
(* and its resumption when the price fetch settles.                         *)

PaperBuyCall(s, amountUSD) ==
    LET r == PaperBuyCheck(portfolio, s, amountUSD)
    IN /\ r = "await" => HasFreeOp
       /\ UNCHANGED <<council, backtest, risk, indicator,
                 alerts, socket>>
       /\ ops' = IF r = "await"
                 THEN [ops EXCEPT ![FreeOp] = [kind |-> "buy", sym |-> s, amt |-> amountUSD,
                                               qty |-> 0, pos |-> NoPos]]
                 ELSE ops
       /\ last' = Step
       /\ UNCHANGED <<portfolio, storage, config, isRunning, intervalId, scans>>

PaperBuyResume(k, ticker, throws) ==
    /\ ops[k].kind = "buy"
    /\ UNCHANGED <<council, backtest, risk, indicator,
                 alerts, socket>>
    /\ ops' = [ops EXCEPT ![k] = IdleOp]
    /\ IF ticker = NoTicker
       THEN /\ ~throws
            /\ last' = Step
            /\ UNCHANGED <<portfolio, storage, scans>>
       ELSE /\ Room
            /\ MergeExact(portfolio.positions[ops[k].sym], ops[k].amt, ticker)
            /\ Commit(PaperBuyApply(portfolio, ops[k].sym, ops[k].amt, ticker), throws)
            /\ last' = Step
    /\ UNCHANGED <<config, isRunning, intervalId>>

-----------------------------------------------------------------------------
(* Manual paperSell (CockpitView.handleManualSell sells the whole position; *)
(* the function takes any quantity).                                        *)

PaperSellCall(s, quantity) ==
    LET r == PaperSellCheck(portfolio, s, quantity)
    IN /\ r = "await" => HasFreeOp
       /\ UNCHANGED <<council, backtest, risk, indicator,
                 alerts, socket>>
       /\ ops' = IF r = "await"
                 THEN [ops EXCEPT ![FreeOp] =
                          [kind |-> "sell", sym |-> s, amt |-> 0,
                           qty |-> SellQty(portfolio.positions[s], quantity),
                           pos |-> portfolio.positions[s]]]
                 ELSE ops
       /\ last' = Step
       /\ UNCHANGED <<portfolio, storage, config, isRunning, intervalId, scans>>

PaperSellResume(k, ticker, throws) ==
    /\ ops[k].kind = "sell"
    /\ UNCHANGED <<council, backtest, risk, indicator,
                 alerts, socket>>
    /\ ops' = [ops EXCEPT ![k] = IdleOp]
    /\ IF ticker = NoTicker
       THEN /\ ~throws
            /\ last' = Step
            /\ UNCHANGED <<portfolio, storage, scans>>
       ELSE /\ Room
            /\ Commit(PaperSellApply(portfolio, ops[k].sym, ops[k].pos, ops[k].qty, ticker),
                      throws)
            /\ last' = Step
    /\ UNCHANGED <<config, isRunning, intervalId>>

-----------------------------------------------------------------------------
(* paperBuy and paperSell run to completion: the price fetch settles before *)
(* any other operation starts.                                              *)

PaperBuyRun(s, amountUSD, ticker, throws) ==
    LET r == PaperBuyCheck(portfolio, s, amountUSD)
    IN /\ IF r # "await"
          THEN /\ ~throws /\ ticker = NoTicker
               /\ last' = Event("paperBuy", s, r)
               /\ UNCHANGED <<portfolio, storage>>
          ELSE IF ticker = NoTicker
          THEN /\ ~throws
               /\ last' = Event("paperBuy", s, "noTicker")
               /\ UNCHANGED <<portfolio, storage>>
          ELSE /\ Room
               /\ portfolio' = PaperBuyApply(portfolio, s, amountUSD, ticker)
               /\ throws = QuotaExceeded(storage, portfolio')
               /\ storage' = SavePaperPortfolio(storage, portfolio', throws)
               /\ last' = Event("paperBuy", s, IF throws THEN "throw" ELSE "trade")
       /\ UNCHANGED <<config, isRunning, intervalId, ops, scans, council, backtest, risk, indicator,
                 alerts, socket>>

PaperSellRun(s, quantity, ticker, throws) ==
    LET r == PaperSellCheck(portfolio, s, quantity)
        position == portfolio.positions[s]
    IN /\ IF r # "await"
          THEN /\ ~throws /\ ticker = NoTicker
               /\ last' = Event("paperSell", s, r)
               /\ UNCHANGED <<portfolio, storage>>
          ELSE IF ticker = NoTicker
          THEN /\ ~throws
               /\ last' = Event("paperSell", s, "noTicker")
               /\ UNCHANGED <<portfolio, storage>>
          ELSE /\ Room
               /\ portfolio' = PaperSellApply(portfolio, s, position,
                                              SellQty(position, quantity), ticker)
               /\ throws = QuotaExceeded(storage, portfolio')
               /\ storage' = SavePaperPortfolio(storage, portfolio', throws)
               /\ last' = Event("paperSell", s, IF throws THEN "throw" ELSE "trade")
       /\ UNCHANGED <<config, isRunning, intervalId, ops, scans, council, backtest, risk, indicator,
                 alerts, socket>>

NextSeq ==
    \/ \E x \in BOOLEAN : InitializePaperPortfolio(x)
    \/ \E s \in Symbols, a \in Amounts, t \in Tickers, x \in BOOLEAN : PaperBuyRun(s, a, t, x)
    \/ \E s \in Symbols, q \in SellQuantities, t \in Tickers, x \in BOOLEAN :
          PaperSellRun(s, q, t, x)

SpecSeq == Init /\ [][NextSeq]_vars

-----------------------------------------------------------------------------
(* Properties of paperBuy and paperSell run one after another (SpecSeq) *)

(* C1: on an initialized portfolio, after any sequence of completed paperBuy *)
(* and paperSell operations, balance = initialBalance + sum of the pnl of    *)
(* the closed trades - sum over the open positions of quantity * avgCost,    *)
(* within the tolerance of repairPortfolioBalance.                           *)
C1_BalanceReconciles ==
    portfolio.live =>
        Abs(portfolio.balance - ExpectedBalance(portfolio)) <= BalanceTolerance

(* C2: a paperBuy for a symbol that is held returns no trade, whatever the   *)
(* cash and the notional, through the check of lines 299-302, and leaves the *)
(* position, the balance and the trade list as they were.                    *)
C2_HeldBuyRejected ==
    [][\A s \in Symbols, a \in Amounts, t \in Tickers, x \in BOOLEAN :
          (portfolio.positions[s].held /\ PaperBuyRun(s, a, t, x))
              => /\ last'.res = "held"
                 /\ portfolio'.positions = portfolio.positions
                 /\ portfolio'.balance = portfolio.balance
                 /\ portfolio'.trades = portfolio.trades]_vars

C2_HeldBuyWithCash ==
    /\ last.op = "paperBuy" /\ last.res = "held"
    /\ portfolio.positions[last.sym].held
    /\ portfolio.balance >= 8

(* C3, as stated: a Buy for a symbol that is held adds its quantity to the   *)
(* position and makes avgCost the weighted average, for some notional and    *)
(* price of the second Buy.                                                  *)
C3_SecondBuyAverages ==
    [][\A s \in Symbols :
          (portfolio.positions[s].held /\ last'.op = "paperBuy" /\ last'.sym = s)
              => \E a \in Amounts, p \in Prices :
                    LET old == portfolio.positions[s]
                        new == portfolio'.positions[s]
                    IN /\ new.held
                       /\ new.quantity = old.quantity + a \div p
                       /\ new.avgCost * new.quantity = old.quantity * old.avgCost + a]_vars

IsBuyOf(tr, s) == tr.type = "buy" /\ tr.symbol = s

RECURSIVE SoldAfter(_, _, _)
SoldAfter(ts, s, k) ==
    IF k >= Len(ts) THEN 0
    ELSE (IF ts[k + 1].type = "sell" /\ ts[k + 1].symbol = s THEN ts[k + 1].quantity ELSE 0)
         + SoldAfter(ts, s, k + 1)

(* C3, corrected: with the operations run one after another a position comes *)
(* from exactly one Buy: its avgCost is the price of the last Buy of the     *)
(* symbol and its quantity is that Buy's notional / price less what was sold *)
(* since; a second Buy while the symbol is held changes neither.             *)
C3_PositionIsOneBuy ==
    \A s \in Symbols :
        portfolio.positions[s].held =>
            \E k \in 1..Len(portfolio.trades) :
                /\ IsBuyOf(portfolio.trades[k], s)
                /\ \A j \in (k + 1)..Len(portfolio.trades) : ~IsBuyOf(portfolio.trades[j], s)
                /\ portfolio.positions[s].avgCost = portfolio.trades[k].entryPrice
                /\ portfolio.positions[s].quantity =
                       portfolio.trades[k].quantity - SoldAfter(portfolio.trades, s, k)

C3_SecondBuyAttempted ==
    /\ last.op = "paperBuy" /\ last.res = "held"
    /\ Len(portfolio.trades) = 1
    /\ IsBuyOf(portfolio.trades[1], last.sym)
    /\ portfolio.positions[last.sym].quantity = portfolio.trades[1].quantity
    /\ portfolio.positions[last.sym].avgCost = portfolio.trades[1].entryPrice

(* C4: a paperSell for a symbol without a position, or for more than the     *)
(* held quantity, returns no trade and leaves the balance, the positions and *)
(* the trade list as they were.                                              *)
C4_SellRejected ==
    [][\A s \in Symbols, q \in SellQuantities, t \in Tickers, x \in BOOLEAN :
          (/\ portfolio.live
           /\ \/ ~portfolio.positions[s].held
              \/ q > portfolio.positions[s].quantity
           /\ PaperSellRun(s, q, t, x))
              => /\ last'.res \in {"noPosition", "insufficient"}
                 /\ portfolio' = portfolio]_vars

C4_SellOfTooMuch ==
    /\ last.op = "paperSell" /\ last.res = "insufficient"
    /\ portfolio.positions[last.sym].held
    /\ portfolio.positions[last.sym].quantity < 3

-----------------------------------------------------------------------------
(* The stored portfolio across page loads *)

(* The page is loaded again: the module state is built anew (lines 73-77),  *)
(* the configuration comes from the storage, every timer and pending call   *)
(* is gone.                                                                 *)
Reload ==
    /\ portfolio' = NullPortfolio
    /\ config' = storage.autopilot_config
    /\ isRunning' = FALSE
    /\ intervalId' = FALSE
    /\ UNCHANGED <<council, backtest, risk, indicator,
                 alerts, socket>>
    /\ ops' = [k \in 1..MaxOps |-> IdleOp]
    /\ scans' = [i \in 1..MaxScans |-> IdleScan]
    /\ last' = Step
    /\ UNCHANGED storage

(* getPaperPortfolio (lines 166-171) on mount, with a stored snapshot:      *)
(* loadPaperPortfolio parses it and repairPortfolioBalance writes the       *)
(* repaired snapshot back.  If that write throws, the catch of line 147     *)
(* makes loadPaperPortfolio return null, line 168 stores the null, and      *)
(* AutoPilotView initializes a new portfolio.                               *)
GetPaperPortfolio(throws) ==
    LET loaded == Deserialize(storage.paper_portfolio)
        repaired == RepairPortfolioBalance(loaded)
        saves == repaired # loaded
    IN /\ ~portfolio.live
       /\ storage.paper_portfolio.present
       /\ throws = (saves /\ QuotaExceeded(storage, repaired))
       /\ IF throws
          THEN /\ portfolio' = NewPortfolio(StartBalance)
               /\ storage' = SavePaperPortfolio(storage, NewPortfolio(StartBalance), FALSE)
               /\ last' = Event("loadPaperPortfolio", "BTC", "failed")
          ELSE /\ portfolio' = repaired
               /\ storage' = IF saves THEN SavePaperPortfolio(storage, repaired, FALSE)
                             ELSE storage
               /\ last' = Event("loadPaperPortfolio", "BTC",
                                IF saves THEN "repaired" ELSE "kept")
       /\ UNCHANGED <<config, isRunning, intervalId, ops, scans, council, backtest, risk, indicator,
                 alerts, socket>>

(* The stored balance is changed behind the program's back. *)
Tamper(balance) ==
    /\ storage.paper_portfolio.present
    /\ storage' = [storage EXCEPT !.paper_portfolio.balance = balance]
    /\ last' = Step
    /\ UNCHANGED <<portfolio, config, isRunning, intervalId, ops, scans, council, backtest, risk, indicator,
                 alerts, socket>>

(* AutoPilotView.handleReset: stopAutoPilot, then resetPaperPortfolio       *)
(* (lines 121-125) removes the stored items and initializes anew.           *)
HandleReset(throws) ==
    LET cleared == [storage EXCEPT !.paper_portfolio = NoSnapshot]
    IN /\ throws = QuotaExceeded(storage, NewPortfolio(StartBalance))
       /\ config' = [config EXCEPT !.enabled = FALSE]
       /\ isRunning' = FALSE
       /\ intervalId' = FALSE
       /\ portfolio' = NewPortfolio(StartBalance)
       /\ storage' = SavePaperPortfolio(cleared, NewPortfolio(StartBalance), throws)
       /\ scans' = Compact(Retarget(scans, portfolio, NewPortfolio(StartBalance)))
       /\ last' = Event("resetPaperPortfolio", "BTC", "done")
       /\ UNCHANGED <<ops, council, backtest, risk, indicator,
                 alerts, socket>>

NextStore ==
    \/ \E x \in BOOLEAN : InitializePaperPortfolio(x)
    \/ \E x \in BOOLEAN : GetPaperPortfolio(x)
    \/ \E x \in BOOLEAN : HandleReset(x)
    \/ \E s \in Symbols, a \in Amounts, t \in Tickers, x \in BOOLEAN : PaperBuyRun(s, a, t, x)
    \/ \E s \in Symbols, q \in SellQuantities, t \in Tickers, x \in BOOLEAN :
          PaperSellRun(s, q, t, x)
    \/ \E b \in TamperedBalances : Tamper(b)
    \/ Reload

SpecStore == Init /\ [][NextStore]_vars

(* C11: loadPaperPortfolio leaves the balance within the tolerance of the    *)
(* expected balance: a stored balance that is more than 1 off is replaced by *)
(* the expected balance and the repaired snapshot is stored; otherwise the   *)
(* stored balance and the stored snapshot are kept.  Positions and trades    *)
(* are those of the snapshot.                                                *)
C11_LoadRepairsBalance ==
    [][\A x \in BOOLEAN :
          GetPaperPortfolio(x) =>
              LET data == storage.paper_portfolio
                  loaded == Deserialize(data)
                  expected == ExpectedBalance(loaded)
              IN /\ Abs(portfolio'.balance - ExpectedBalance(portfolio')) <= BalanceTolerance
                 /\ portfolio'.positions = loaded.positions
                 /\ portfolio'.trades = loaded.trades
                 /\ IF Abs(data.balance - expected) > BalanceTolerance
                    THEN /\ portfolio'.balance = expected
                         /\ storage'.paper_portfolio = Serialize(portfolio')
                    ELSE /\ portfolio'.balance = data.balance
                         /\ storage' = storage]_vars

C11_RepairedOnLoad ==
    /\ last.op = "loadPaperPortfolio" /\ last.res = "repaired"
    /\ portfolio.trades # <<>>
    /\ storage.paper_portfolio = Serialize(portfolio)

(* C12: whenever an operation has changed the portfolio, the stored          *)
(* 'paper_portfolio' snapshot is the serialization of the portfolio in       *)
(* memory, and loading it gives back that portfolio.                         *)
C12_PersistedEqualsMemory ==
    [][(portfolio' # portfolio /\ portfolio'.live) =>
          /\ storage'.paper_portfolio = Serialize(portfolio')
          /\ RepairPortfolioBalance(Deserialize(storage'.paper_portfolio)) = portfolio']_vars

-----------------------------------------------------------------------------
(* startAutoPilot, stopAutoPilot, and the timer *)

(* saveAutoPilotConfig (lines 94-100). *)
SaveAutoPilotConfig(st, cfg) == [st EXCEPT !.autopilot_config = cfg]

(* throws: the savePaperPortfolio of initializePaperPortfolio (line 631)    *)
(* throws, which leaves startAutoPilot before its line 634.                 *)
StartAutoPilot(throws) ==
    LET pf == IF portfolio.live THEN portfolio ELSE NewPortfolio(StartBalance)
        st == IF portfolio.live THEN storage ELSE SavePaperPortfolio(storage, pf, throws)
        cfg == [config EXCEPT !.enabled = TRUE]
    IN /\ throws = (~portfolio.live /\ QuotaExceeded(storage, pf))
       /\ portfolio' = pf
       /\ last' = Step
       /\ IF throws
          THEN UNCHANGED <<config, storage, isRunning, intervalId, scans>>
          ELSE /\ config' = cfg
               /\ storage' = SaveAutoPilotConfig(st, cfg)
               /\ IF isRunning
                  THEN UNCHANGED <<isRunning, intervalId, scans>>
                  ELSE /\ HasFreeScan
                       /\ isRunning' = TRUE
                       /\ scans' = Compact([scans EXCEPT ![FreeScan] = BeginScan(pf, cfg)])
                       /\ intervalId' = TRUE
       /\ UNCHANGED <<ops, council, backtest, risk, indicator,
                 alerts, socket>>

StopAutoPilot ==
    /\ config' = [config EXCEPT !.enabled = FALSE]
    /\ isRunning' = FALSE
    /\ intervalId' = FALSE
    /\ last' = Step
    /\ UNCHANGED <<portfolio, storage, ops, scans, council, backtest, risk, indicator,
                 alerts, socket>>

(* The interval timer fires and calls autoPilotScan. *)
Tick ==
    /\ intervalId
    /\ HasFreeScan
    /\ scans' = Compact([scans EXCEPT ![FreeScan] = BeginScan(portfolio, config)])
    /\ last' = Step
    /\ UNCHANGED <<portfolio, storage, config, isRunning, intervalId, ops, council, backtest, risk, indicator,
                 alerts, socket>>

-----------------------------------------------------------------------------
(* autoPilotScan, exit loop (lines 428-479) *)

ScanEvent(sc2) ==
    IF sc2.pc = "idle" THEN Event("autoPilotScan", "BTC", "complete") ELSE Step

(* The call of paperSell from the scan, up to its await. *)
ScanSellCall(i, pcAwait, reason) ==
    LET sc == scans[i]
        position == portfolio.positions[sc.cur]
    IN IF PaperSellCheck(portfolio, sc.cur, 0) = "await"
       THEN [sc EXCEPT !.pc = pcAwait, !.pos = position, !.qty = SellQty(position, 0),
                       !.reason = reason]
       ELSE NextExit(sc, portfolio)

(* Line 429 settles. *)
ScanExitTicker(i, ticker) ==
    LET sc == scans[i]
        sc2 == IF ticker = NoTicker THEN NextExit(sc, portfolio)
               ELSE IF ExitTrigger(config, sc.pos, ticker) # "none"
                    THEN ScanSellCall(i, "exitSellTicker",
                                      ExitTrigger(config, sc.pos, ticker))
               ELSE [sc EXCEPT !.pc = "exitKlines", !.pos = NoPos]
    IN /\ sc.pc = "exitTicker"
       /\ scans' = Compact([scans EXCEPT ![i] = sc2])
       /\ last' = ScanEvent(sc2)
       /\ UNCHANGED <<portfolio, storage, config, isRunning, intervalId, ops, council, backtest, risk, indicator,
                 alerts, socket>>

(* The price fetch of a stop-loss / take-profit paperSell settles (lines   *)
(* 439-462, outside any try): an exception of paperSell leaves the scan.   *)
ScanExitSellTicker(i, ticker, throws) ==
    LET sc == scans[i]
        pf2 == PaperSellApply(portfolio, sc.cur, sc.pos, sc.qty, ticker)
        scs2 == Retarget(scans, portfolio, pf2)
    IN /\ sc.pc = "exitSellTicker"
       /\ IF ticker = NoTicker
          THEN /\ ~throws
               /\ scans' = Compact([scans EXCEPT ![i] = NextExit(sc, portfolio)])
               /\ last' = ScanEvent(NextExit(sc, portfolio))
               /\ UNCHANGED <<portfolio, storage>>
          ELSE /\ Room
               /\ throws = QuotaExceeded(storage, pf2)
               /\ portfolio' = pf2
               /\ storage' = SavePaperPortfolio(storage, pf2, throws)
               /\ scans' = Compact([scs2 EXCEPT ![i] = IF throws THEN IdleScan
                                                       ELSE NextExit(scs2[i], pf2)])
               /\ last' = IF throws THEN Event("autoPilotScan", "BTC", "raised")
                          ELSE ScanEvent(NextExit(scs2[i], pf2))
       /\ UNCHANGED <<config, isRunning, intervalId, ops, council, backtest, risk, indicator,
                 alerts, socket>>

(* Line 468 settles: the council decision for a held symbol (lines 467-478). *)
ScanExitKlines(i, decision) ==
    LET sc == scans[i]
        sc2 == IF decision = "sell" THEN ScanSellCall(i, "exitSignalTicker", "signal")
               ELSE NextExit(sc, portfolio)
    IN /\ sc.pc = "exitKlines"
       /\ scans' = Compact([scans EXCEPT ![i] = sc2])
       /\ last' = ScanEvent(sc2)
       /\ UNCHANGED <<portfolio, storage, config, isRunning, intervalId, ops, council, backtest, risk, indicator,
                 alerts, socket>>

(* The price fetch of the signal paperSell settles (line 472, inside try:  *)
(* an exception of paperSell is caught at line 476 and the loop goes on).  *)
ScanExitSignalTicker(i, ticker, throws) ==
    LET sc == scans[i]
        pf2 == PaperSellApply(portfolio, sc.cur, sc.pos, sc.qty, ticker)
        scs2 == Retarget(scans, portfolio, pf2)
    IN /\ sc.pc = "exitSignalTicker"
       /\ IF ticker = NoTicker
          THEN /\ ~throws
               /\ scans' = Compact([scans EXCEPT ![i] = NextExit(sc, portfolio)])
               /\ last' = ScanEvent(NextExit(sc, portfolio))
               /\ UNCHANGED <<portfolio, storage>>
          ELSE /\ Room
               /\ throws = QuotaExceeded(storage, pf2)
               /\ portfolio' = pf2
               /\ storage' = SavePaperPortfolio(storage, pf2, throws)
               /\ scans' = Compact([scs2 EXCEPT ![i] = NextExit(scs2[i], pf2)])
               /\ last' = ScanEvent(NextExit(scs2[i], pf2))
       /\ UNCHANGED <<config, isRunning, intervalId, ops, council, backtest, risk, indicator,
                 alerts, socket>>

-----------------------------------------------------------------------------
(* autoPilotScan, entry loop (lines 482-550) *)

(* Line 486 settles: fetchAllTradingPairs returns the sorted universe. *)
ScanPairs(i) ==
    LET sc == scans[i]
        sc2 == AdvanceEntry([sc EXCEPT !.cands = Universe], portfolio, config)
    IN /\ sc.pc = "pairs"
       /\ scans' = Compact([scans EXCEPT ![i] = sc2])
       /\ last' = ScanEvent(sc2)
       /\ UNCHANGED <<portfolio, storage, config, isRunning, intervalId, ops, council, backtest, risk, indicator,
                 alerts, socket>>

(* Line 548: the scan waits before its next candidate. *)
(* Variant: after a candidate the scan goes back into its exit loop. *)
DelayThenExitLoop(sc) == [sc EXCEPT !.pc = "exitKlines"]

Delay(sc) ==
    [IdleScan EXCEPT !.pc = "delay", !.cands = sc.cands, !.entered = TRUE,
                     !.nExit = sc.nExit, !.nCand = sc.nCand]

(* Lines 516-521: the trade size is known; it is bought if the cash covers it. *)
SizeKnown(sc, tradeSize) ==
    IF tradeSize <= portfolio.balance
    THEN [sc EXCEPT !.pc = "entryTicker", !.amt = tradeSize]
    ELSE Delay(sc)

(* Line 502 settles.  decision is what the candles lead to: "short" (fewer  *)
(* than 50 candles), "raise" (the analysis throws), "buy" (a qualifying buy *)
(* decision) or "hold" (anything else).  calculatePortfolioValue (line 515) *)
(* fetches one price per held position, and none when nothing is held; the *)
(* trade size is totalValue * positionSizePercent / 100, drawn from Amounts.*)
ScanEntryKlines(i, decision, tradeSize) ==
    LET sc == scans[i]
        sc2 == IF decision = "short" THEN AdvanceEntry(sc, portfolio, config)
               ELSE IF decision = "buy"
                    THEN IF Held(portfolio) = {} THEN SizeKnown(sc, tradeSize)
                         ELSE [sc EXCEPT !.pc = "entryValue"]
               ELSE Delay(sc)
    IN /\ sc.pc = "entryKlines"
       /\ scans' = Compact([scans EXCEPT ![i] = sc2])
       /\ last' = ScanEvent(sc2)
       /\ UNCHANGED <<portfolio, storage, config, isRunning, intervalId, ops, council, backtest, risk, indicator,
                 alerts, socket>>

(* Line 515 settles. *)
ScanEntryValue(i, tradeSize) ==
    LET sc == scans[i]
    IN /\ sc.pc = "entryValue"
       /\ scans' = Compact([scans EXCEPT ![i] = SizeKnown(sc, tradeSize)])
       /\ last' = ScanEvent(SizeKnown(sc, tradeSize))
       /\ UNCHANGED <<portfolio, storage, config, isRunning, intervalId, ops, council, backtest, risk, indicator,
                 alerts, socket>>

(* Line 520 settles; lines 521-538 run up to the await of paperBuyWithLevels. *)
ScanEntryTicker(i, ticker) ==
    LET sc == scans[i]
        levels == RiskLevels(ticker)
        r == PaperBuyWithLevelsCheck(portfolio, sc.cur, sc.amt)
        sc2 == IF ticker = NoTicker THEN AdvanceEntry(sc, portfolio, config)
               ELSE IF r = "await"
                    THEN [sc EXCEPT !.pc = "entryBuyTicker",
                             !.sl = IF config.useDynamicSLTP THEN levels.stopLoss ELSE 0,
                             !.tp = IF config.useDynamicSLTP THEN levels.takeProfit2 ELSE 0]
               ELSE Delay(sc)
    IN /\ sc.pc = "entryTicker"
       /\ scans' = Compact([scans EXCEPT ![i] = sc2])
       /\ last' = ScanEvent(sc2)
       /\ UNCHANGED <<portfolio, storage, config, isRunning, intervalId, ops, council, backtest, risk, indicator,
                 alerts, socket>>

(* Line 576 settles: paperBuyWithLevels creates or merges the position; an *)
(* exception of its savePaperPortfolio is caught at line 543.              *)
ScanEntryBuyTicker(i, ticker, throws) ==
    LET sc == scans[i]
        pf2 == PaperBuyWithLevelsApply(portfolio, sc.cur, sc.amt, ticker, sc.sl, sc.tp)
        scs2 == Retarget(scans, portfolio, pf2)
    IN /\ sc.pc = "entryBuyTicker"
       /\ IF ticker = NoTicker
          THEN /\ ~throws
               /\ scans' = Compact([scans EXCEPT ![i] = Delay(sc)])
               /\ last' = Step
               /\ UNCHANGED <<portfolio, storage>>
          ELSE /\ Room
               /\ MergeExact(portfolio.positions[sc.cur], sc.amt, ticker)
               /\ throws = QuotaExceeded(storage, pf2)
               /\ portfolio' = pf2
               /\ storage' = SavePaperPortfolio(storage, pf2, throws)
               /\ scans' = Compact([scs2 EXCEPT ![i] = Delay(sc)])
               /\ last' = Event("paperBuyWithLevels", sc.cur,
                                IF portfolio.positions[sc.cur].held THEN "merged"
                                ELSE "trade")
       /\ UNCHANGED <<config, isRunning, intervalId, ops, council, backtest, risk, indicator,
                 alerts, socket>>

(* Line 548: the delay between two candidates. *)
ScanDelay(i) ==
    LET sc == scans[i]
        sc2 == AdvanceEntry(sc, portfolio, config)
    IN /\ sc.pc = "delay"
       /\ scans' = Compact([scans EXCEPT ![i] = sc2])
       /\ last' = ScanEvent(sc2)
       /\ UNCHANGED <<portfolio, storage, config, isRunning, intervalId, ops, council, backtest, risk, indicator,
                 alerts, socket>>

-----------------------------------------------------------------------------
(* Properties of the scan cycles, the timer and the manual operations (Spec) *)

(* C5: at any time at most one autoPilotScan invocation is in flight. *)
C5_OneScanInFlight == Cardinality(InFlight) <= 1

(* C6: the scan path opens a position only when fewer than                   *)
(* config.maxPositions are open, and right after an autopilot buy at most    *)
(* config.maxPositions are open.                                             *)
C6_MaxPositionsCap ==
    [][(last'.op = "paperBuyWithLevels" /\ last'.res = "trade")
          => /\ Cardinality(Held(portfolio)) < config.maxPositions
             /\ Cardinality(Held(portfolio')) <= config.maxPositions]_vars

(* C7: paperBuyWithLevels never adds to a position that exists: its merge    *)
(* branch (lines 584-593) is never taken.                                    *)
C7_NoMergeOnScanPath ==
    ~(last.op = "paperBuyWithLevels" /\ last.res = "merged")

BuyPcs == {"entryValue", "entryTicker", "entryBuyTicker"}

(* C8: within one scan cycle every exit evaluation comes before the first    *)
(* candidate is analysed: a cycle in its entry loop never returns to the     *)
(* exit loop, and it leaves the exit loop only when the iterator of the      *)
(* positions has nothing left; and the candidates are taken one after        *)
(* another: while the trade size or the buy of a candidate is awaited the    *)
(* cycle stays with that candidate, and the next analysis starts only after  *)
(* the buy has returned and the delay has passed.                            *)
C8_ScanOrdering ==
    /\ [](\A i \in 1..MaxScans :
            /\ scans[i].pc \in ExitPcs => ~scans[i].entered /\ scans[i].nCand = 0
            /\ scans[i].pc \in EntryPcs => scans[i].entered /\ scans[i].todo = <<>>)
    /\ [][Cardinality(InFlight') = Cardinality(InFlight) =>
            \A i \in InFlight :
                /\ scans[i].pc \in EntryPcs => scans'[i].pc \in EntryPcs
                /\ (scans[i].pc \in ExitPcs /\ scans'[i].pc \in EntryPcs)
                       => scans[i].todo = <<>>
                /\ scans[i].pc \in {"entryValue", "entryBuyTicker"}
                       => /\ scans'[i].pc \in BuyPcs \cup {"delay"}
                          /\ scans'[i].pc \in BuyPcs => scans'[i].cur = scans[i].cur
                /\ scans'[i].nCand > scans[i].nCand
                       => scans[i].pc \in {"pairs", "entryKlines", "entryTicker", "delay"}]_vars

C8_ExitsThenTwoCandidates ==
    \E i \in 1..MaxScans :
        /\ scans[i].pc = "entryKlines"
        /\ scans[i].nExit >= 1
        /\ scans[i].nCand >= 2

(* C9: a scan cycle begins only while the timer of startAutoPilot is armed,  *)
(* so none begins between stopAutoPilot and the next startAutoPilot; and a   *)
(* cycle in flight while the AutoPilot is stopped leaves only by reaching    *)
(* its end.                                                                  *)
C9_StopLetsScanFinish ==
    [][/\ Cardinality(InFlight') > Cardinality(InFlight) => intervalId'
       /\ (~isRunning /\ ~isRunning' /\ Cardinality(InFlight') < Cardinality(InFlight))
              => last'.res = "complete"]_vars

(* C10: no exception propagates out of autoPilotScan: a failure for one      *)
(* symbol never ends the cycle before its remaining positions and candidates.*)
C10_NoScanRaises ==
    ~(last.op = "autoPilotScan" /\ last.res = "raised")

-----------------------------------------------------------------------------

(* C13: while a portfolio exists, every step only appends to the trade list: *)
(* the records already there stay as they are, and a step that closes a      *)
(* position appends one closed sell record of that symbol.                   *)
C13_TradesAppendOnly ==
    [][portfolio.live =>
          LET old == portfolio.trades
              new == portfolio'.trades
          IN /\ Len(new) >= Len(old)
             /\ SubSeq(new, 1, Len(old)) = old
             /\ \A s \in Symbols :
                   (portfolio.positions[s].held /\ ~portfolio'.positions[s].held) =>
                       /\ Len(new) = Len(old) + 1
                       /\ new[Len(new)].symbol = s
                       /\ new[Len(new)].type = "sell"
                       /\ new[Len(new)].status = "closed"]_vars

C13_ClosedAfterBuy ==
    /\ Len(portfolio.trades) = 2
    /\ portfolio.trades[1] = BuyTrade(portfolio.trades[1].symbol, 2, 2)
    /\ portfolio.trades[2].type = "sell"
    /\ portfolio.trades[2].symbol = portfolio.trades[1].symbol
    /\ ~portfolio.positions[portfolio.trades[1].symbol].held

Decisions == {"short", "raise", "hold", "buy", "sell"}

ScanStep(i) ==
    \/ \E t \in Tickers : ScanExitTicker(i, t)
    \/ \E t \in Tickers, x \in BOOLEAN : ScanExitSellTicker(i, t, x)
    \/ \E d \in Decisions : ScanExitKlines(i, d)
    \/ \E t \in Tickers, x \in BOOLEAN : ScanExitSignalTicker(i, t, x)
    \/ ScanPairs(i)
    \/ \E d \in Decisions, a \in TradeSizes : ScanEntryKlines(i, d, a)
    \/ \E a \in TradeSizes : ScanEntryValue(i, a)
    \/ \E t \in Tickers : ScanEntryTicker(i, t)
    \/ \E t \in Tickers, x \in BOOLEAN : ScanEntryBuyTicker(i, t, x)
    \/ ScanDelay(i)

Next ==
    \/ \E x \in BOOLEAN : InitializePaperPortfolio(x)
    \/ \E s \in Symbols, a \in ManualAmounts : PaperBuyCall(s, a)
    \/ \E k \in 1..MaxOps, t \in Tickers, x \in BOOLEAN : PaperBuyResume(k, t, x)
    \/ \E s \in Symbols : PaperSellCall(s, 0)
    \/ \E k \in 1..MaxOps, t \in Tickers, x \in BOOLEAN : PaperSellResume(k, t, x)
    \/ \E x \in BOOLEAN : StartAutoPilot(x)
    \/ StopAutoPilot
    \/ Tick
    \/ \E i \in 1..MaxScans : ScanStep(i)

Spec == Init /\ [][Next]_vars

-----------------------------------------------------------------------------
(* The configuration and its stored copy *)

(* The partial configurations a caller passes to updateAutoPilotConfig. *)
ConfigEdits ==
    {[maxPositions |-> n] : n \in StoredMaxPositions}
        \cup {[useDynamicSLTP |-> b] : b \in BOOLEAN}
        \cup {[enabled |-> b] : b \in BOOLEAN}
        \cup {[stopLossPercent |-> StopLossPercent, takeProfitPercent |-> TakeProfitPercent]}

(* { ...config, ...newConfig } *)
Spread(cfg, newConfig) ==
    [f \in DOMAIN cfg |-> IF f \in DOMAIN newConfig THEN newConfig[f] ELSE cfg[f]]

(* updateAutoPilotConfig, lines 692-696. *)
UpdateAutoPilotConfig(newConfig) ==
    /\ config' = Spread(config, newConfig)
    /\ storage' = SaveAutoPilotConfig(storage, Spread(config, newConfig))
    /\ last' = Step
    /\ UNCHANGED <<portfolio, isRunning, intervalId, ops, scans, council, backtest, risk, indicator,
                 alerts, socket>>

NextConfig ==
    \/ \E x \in BOOLEAN : InitializePaperPortfolio(x)
    \/ \E x \in BOOLEAN : StartAutoPilot(x)
    \/ StopAutoPilot
    \/ \E newConfig \in ConfigEdits : UpdateAutoPilotConfig(newConfig)
    \/ Tick
    \/ Reload

SpecConfig == Init /\ [][NextConfig]_vars

(* C15: the stored 'autopilot_config' record equals the configuration in     *)
(* memory, the enabled flag included, whenever startAutoPilot, stopAutoPilot *)
(* or updateAutoPilotConfig has returned.                                    *)
C15_ConfigPersisted == storage.autopilot_config = config

-----------------------------------------------------------------------------
(* A call of generateCouncilDecision *)

InitCouncil ==
    /\ \E env \in Environments :
          ModuleLoaded(LoadAutoPilotConfig(env.maxPositions), env.quota)
    /\ \E inp \in CouncilInputs : council = [NoCouncil EXCEPT !.pc = "call", !.input = inp]
    /\ backtest = NoBacktest
    /\ risk = NoRisk
    /\ indicator = NoIndicator
    /\ alerts = NoAlerts
    /\ socket = NoSocket

CouncilDecides ==
    /\ council.pc = "call"
    /\ council' = [council EXCEPT !.pc = "returned",
                                  !.decision = GenerateCouncilDecision(council.input)]
    /\ UNCHANGED <<portfolio, config, isRunning, intervalId, ops, scans, last, storage,
                   backtest, risk, indicator, alerts, socket>>

NextCouncil == CouncilDecides

SpecCouncil == InitCouncil /\ [][NextCouncil]_vars

(* C16: the decision returned is buy only if the RSI(14) is below 24 or at   *)
(* least 4 of the 7 votes are buy, sell only if the RSI(14) is above 78 or   *)
(* at least 4 of the 7 votes are sell, and hold in every other case; with    *)
(* fewer than 50 candles it is hold with confidence 0 and no votes.          *)
C16_DecisionIsJustified ==
    council.pc = "returned" =>
        LET d == council.decision
            inp == council.input
            buyVotes == CountOf(d.votes, "buy")
            sellVotes == CountOf(d.votes, "sell")
            buyJustified == inp.rsi < 24 \/ buyVotes >= 4
            sellJustified == inp.rsi > 78 \/ sellVotes >= 4
        IN /\ d.finalAction \in {"buy", "sell", "hold"}
           /\ d.finalAction = "buy" => buyJustified
           /\ d.finalAction = "sell" => sellJustified
           /\ (~buyJustified /\ ~sellJustified) => d.finalAction = "hold"
           /\ inp.candles >= 50 => Len(d.votes) = 7
           /\ inp.candles < 50 =>
                 d.finalAction = "hold" /\ d.confidence = 0 /\ d.votes = <<>>

C16_BuyByConsensus ==
    /\ council.pc = "returned"
    /\ council.decision.finalAction = "buy"
    /\ council.input.rsi = 50
    /\ CountOf(council.decision.votes, "buy") = 4

-----------------------------------------------------------------------------
(* A call of runBacktest with the default configuration *)

InitBacktest ==
    /\ \E env \in Environments :
          ModuleLoaded(LoadAutoPilotConfig(env.maxPositions), env.quota)
    /\ council = NoCouncil
    /\ \E closes \in CandleSeries, strategy \in Strategies :
          backtest = [NoBacktest EXCEPT !.pc = "call", !.candles = closes,
                                        !.strategy = strategy]
    /\ risk = NoRisk
    /\ indicator = NoIndicator
    /\ alerts = NoAlerts
    /\ socket = NoSocket

RunBacktestBegin ==
    /\ backtest.pc = "call"
    /\ backtest' = BeginBacktest(backtest)
    /\ UNCHANGED <<portfolio, config, isRunning, intervalId, ops, scans, last, storage,
                   council, risk, indicator, alerts, socket>>

RunBacktestBar ==
    /\ backtest.pc = "loop"
    /\ backtest.i < Len(backtest.candles)
    /\ backtest' = BacktestBar(backtest)
    /\ UNCHANGED <<portfolio, config, isRunning, intervalId, ops, scans, last, storage,
                   council, risk, indicator, alerts, socket>>

RunBacktestEnd ==
    /\ backtest.pc = "loop"
    /\ backtest.i >= Len(backtest.candles)
    /\ backtest' = EndBacktest(backtest)
    /\ UNCHANGED <<portfolio, config, isRunning, intervalId, ops, scans, last, storage,
                   council, risk, indicator, alerts, socket>>

NextBacktest == RunBacktestBegin \/ RunBacktestBar \/ RunBacktestEnd

SpecBacktest == InitBacktest /\ [][NextBacktest]_vars

(* C17: a run of runBacktest has at most one position open: the positions  *)
(* opened are the trades recorded and the one position still open, a trade  *)
(* is entered no earlier than the trade before it was left, and the signals *)
(* are buy, sell, buy, sell, ... starting with a buy.                       *)
C17_OnePositionAtATime ==
    backtest.pc \in {"loop", "returned"} =>
        /\ backtest.opened
             = Len(backtest.trades) + (IF backtest.position.open THEN 1 ELSE 0)
        /\ \A k \in 1..Len(backtest.trades) :
              /\ backtest.trades[k].entryDate <= backtest.trades[k].exitDate
              /\ k > 1 => backtest.trades[k - 1].exitDate <= backtest.trades[k].entryDate
        /\ (backtest.position.open /\ backtest.trades # <<>>) =>
              backtest.trades[Len(backtest.trades)].exitDate <= backtest.position.entryDate
        /\ \A k \in 1..Len(backtest.signals) :
              backtest.signals[k].type = (IF k % 2 = 1 THEN "buy" ELSE "sell")

C17_TwoTradesFourSignals ==
    /\ backtest.pc = "returned"
    /\ Len(backtest.result.trades) = 2
    /\ Len(backtest.result.signals) = 4

(* C18: runBacktest returns with no position open: a position open after    *)
(* the last bar is closed at the last close with the exit reason 'End of    *)
(* Backtest', every trade returned has an exit price, an exit date and an   *)
(* exit reason, and totalTrades is the number of positions opened.          *)
C18_EndsFlat ==
    [][(RunBacktestEnd /\ backtest'.pc = "returned") =>
          LET result == backtest'.result
              n == Len(backtest.candles)
          IN /\ ~backtest'.position.open
             /\ result.totalTrades = backtest.opened
             /\ result.totalTrades = Len(result.trades)
             /\ \A k \in 1..Len(result.trades) :
                   /\ result.trades[k].exitPrice = At(backtest.candles, result.trades[k].exitDate)
                   /\ result.trades[k].exitDate \in StartBar..(n - 1)
                   /\ result.trades[k].exitReason
                        \in {"signal", "Stop Loss", "Take Profit", "End of Backtest"}
             /\ backtest.position.open =>
                   /\ result.trades = Append(backtest.trades, result.trades[Len(result.trades)])
                   /\ result.trades[Len(result.trades)].exitPrice = At(backtest.candles, n - 1)
                   /\ result.trades[Len(result.trades)].exitDate = n - 1
                   /\ result.trades[Len(result.trades)].exitReason = "End of Backtest"
                   /\ result.trades[Len(result.trades)].entryDate = backtest.position.entryDate
             /\ ~backtest.position.open => result.trades = backtest.trades]_vars

C18_ClosedAtEnd ==
    /\ backtest.pc = "returned"
    /\ Len(backtest.result.trades) = 2
    /\ backtest.result.trades[1].exitReason = "Stop Loss"
    /\ backtest.result.trades[2].exitReason = "End of Backtest"

(* C19: argusComposite on the flat series of 200 bars opens no position:    *)
(* runBacktest returns no trade and a final capital equal to the initial    *)
(* capital.                                                                 *)
C19_FlatSeriesNoTrades ==
    (backtest.strategy = "argusComposite" /\ backtest.candles = FlatCandles(FlatBars)) =>
        /\ backtest.pc # "raised"
        /\ backtest.opened = 0
        /\ backtest.pc = "returned" =>
              /\ backtest.result.totalTrades = 0
              /\ backtest.result.trades = <<>>
              /\ backtest.result.finalCapital = InitialCapital

C19_FlatSeriesReturned ==
    /\ backtest.strategy = "argusComposite"
    /\ backtest.candles = FlatCandles(FlatBars)
    /\ Len(backtest.candles) >= 200
    /\ backtest.pc = "returned"

(* C20: with 50 candles or fewer runBacktest does not raise: it returns a   *)
(* result with no trades and a final capital equal to the initial capital.  *)
C20_ShortInputReturns ==
    (Len(backtest.candles) <= 50 /\ backtest.pc \in {"returned", "raised"}) =>
        /\ backtest.pc = "returned"
        /\ backtest.result.totalTrades = 0
        /\ backtest.result.finalCapital = InitialCapital

-----------------------------------------------------------------------------
(* A call of calculateDynamicRiskLevels or of getSmartRiskLevels *)

InitRisk ==
    /\ \E env \in Environments :
          ModuleLoaded(LoadAutoPilotConfig(env.maxPositions), env.quota)
    /\ council = NoCouncil
    /\ backtest = NoBacktest
    /\ \E fn \in RiskFunctions, candles \in RiskCandles, entryPrice \in EntryPrices,
          direction \in {"long", "short"} :
          risk = [NoRisk EXCEPT !.pc = "call", !.fn = fn, !.candles = candles,
                                !.entryPrice = entryPrice, !.direction = direction]
    /\ indicator = NoIndicator
    /\ alerts = NoAlerts
    /\ socket = NoSocket

RiskLevelsReturned ==
    /\ risk.pc = "call"
    /\ risk' = [risk EXCEPT
                   !.pc = RiskCall(risk.fn, risk.candles, risk.entryPrice, risk.direction).pc,
                   !.levels = RiskCall(risk.fn, risk.candles, risk.entryPrice,
                                       risk.direction).levels]
    /\ UNCHANGED <<portfolio, config, isRunning, intervalId, ops, scans, last, storage,
                   council, backtest, indicator, alerts, socket>>

NextRisk == RiskLevelsReturned

SpecRisk == InitRisk /\ [][NextRisk]_vars

(* C21: the levels a call returns for a positive entry price are ordered:   *)
(* stopLoss < entryPrice < takeProfit1 < takeProfit2 < takeProfit3 for a    *)
(* long position and stopLoss > entryPrice > takeProfit1 > takeProfit2 >    *)
(* takeProfit3 for a short one.                                             *)
C21_LevelsOrdered ==
    (risk.pc = "returned" /\ risk.entryPrice > 0) =>
        LET l == risk.levels
        IN IF risk.direction = "long"
           THEN /\ l.stopLoss < l.entryPrice
                /\ l.entryPrice < l.takeProfit1
                /\ l.takeProfit1 < l.takeProfit2
                /\ l.takeProfit2 < l.takeProfit3
           ELSE /\ l.stopLoss > l.entryPrice
                /\ l.entryPrice > l.takeProfit1
                /\ l.takeProfit1 > l.takeProfit2
                /\ l.takeProfit2 > l.takeProfit3

-----------------------------------------------------------------------------
(* A call of an indicator function *)

InitIndicator ==
    /\ \E env \in Environments :
          ModuleLoaded(LoadAutoPilotConfig(env.maxPositions), env.quota)
    /\ council = NoCouncil
    /\ backtest = NoBacktest
    /\ risk = NoRisk
    /\ \E fn \in IndicatorFunctions, candles \in IndicatorCandles, period \in 1..MaxPeriod :
          indicator = [NoIndicator EXCEPT !.pc = "call", !.fn = fn, !.candles = candles,
                                          !.period = period]
    /\ alerts = NoAlerts
    /\ socket = NoSocket

IndicatorReturned ==
    /\ indicator.pc = "call"
    /\ indicator' = [indicator EXCEPT
                        !.pc = "returned",
                        !.result = IndicatorCall(indicator.fn, indicator.candles,
                                                 indicator.period)]
    /\ UNCHANGED <<portfolio, config, isRunning, intervalId, ops, scans, last, storage,
                   council, backtest, risk, alerts, socket>>

NextIndicator == IndicatorReturned

SpecIndicator == InitIndicator /\ [][NextIndicator]_vars

(* The number of leading elements that are null in each series returned:   *)
(* period - 1 for a moving window of period elements, period for the RSI,  *)
(* which needs period changes, 2 * period for the ADX, the slow period     *)
(* less one for the MACD line and the signal period less one more for its  *)
(* signal and histogram, and dPeriod - 1 more for %D than for %K.          *)
WarmUp(fn, period) ==
    CASE fn = "calculateRSI" -> <<period>>
      [] fn = "calculateADX" -> <<2 * period>>
      [] fn = "calculateMACD" -> <<2 * period - 1, 3 * period - 2, 3 * period - 2>>
      [] fn = "calculateBollingerBands" -> <<period - 1, period - 1, period - 1>>
      [] fn = "calculateStochastic" -> <<period - 1, period + 1>>
      [] OTHER -> <<period - 1>>

(* C22: an indicator function returns series of exactly the input length,  *)
(* whose elements before the warm-up length are null; an input shorter      *)
(* than the warm-up gives series that are null throughout; and the call     *)
(* returns.                                                                 *)
C22_SeriesShape ==
    indicator.pc # "call" =>
        LET n == Len(indicator.candles)
            warmUp == WarmUp(indicator.fn, indicator.period)
        IN /\ indicator.pc = "returned"
           /\ Len(indicator.result) = Len(warmUp)
           /\ \A j \in 1..Len(warmUp) :
                 /\ Len(indicator.result[j]) = n
                 /\ \A k \in 1..n : k <= warmUp[j] => indicator.result[j][k] = Null
                 /\ n < warmUp[j] => indicator.result[j] = Nulls(n)

C22_AdxAfterWarmUp ==
    /\ indicator.pc = "returned"
    /\ indicator.fn = "calculateADX"
    /\ indicator.period = 3
    /\ Len(indicator.candles) = 8
    /\ indicator.result[1][6] = Null
    /\ indicator.result[1][7] \notin {Null, NaN}
    /\ indicator.result[1][8] \notin {Null, NaN}

-----------------------------------------------------------------------------
(* A session that starts with a stored position.  The stored snapshot has  *)
(* no trade records: loadPaperPortfolio reads data.trades || [] (line 138) *)
(* for a snapshot written without them, and its position has no levels.    *)

LegacySnapshot ==
    [present |-> TRUE, balance |-> 4, initialBalance |-> StartBalance,
     entries |-> <<[symbol |-> "BTC", quantity |-> 2, avgCost |-> 4,
                    stopLoss |-> 0, takeProfit |-> 0]>>,
     trades |-> <<>>]

InitSession ==
    /\ \E env \in Environments :
          /\ config = LoadAutoPilotConfig(env.maxPositions)
          /\ storage = [paper_portfolio |-> LegacySnapshot,
                        autopilot_config |-> config, quota |-> env.quota]
    /\ portfolio = NullPortfolio
    /\ isRunning = FALSE
    /\ intervalId = FALSE
    /\ ops = [k \in 1..MaxOps |-> IdleOp]
    /\ scans = [i \in 1..MaxScans |-> IdleScan]
    /\ last = Step
    /\ council = NoCouncil
    /\ backtest = NoBacktest
    /\ risk = NoRisk
    /\ indicator = NoIndicator
    /\ alerts = NoAlerts
    /\ socket = NoSocket

NextSession ==
    \/ \E x \in BOOLEAN : GetPaperPortfolio(x)
    \/ \E s \in Symbols, a \in ManualAmounts : PaperBuyCall(s, a)
    \/ \E k \in 1..MaxOps, t \in Tickers, x \in BOOLEAN : PaperBuyResume(k, t, x)
    \/ \E s \in Symbols : PaperSellCall(s, 0)
    \/ \E k \in 1..MaxOps, t \in Tickers, x \in BOOLEAN : PaperSellResume(k, t, x)
    \/ \E x \in BOOLEAN : StartAutoPilot(x)
    \/ Tick
    \/ \E i \in 1..MaxScans : ScanStep(i)

SpecSession == InitSession /\ [][NextSession]_vars

RECURSIVE TradedQuantity(_, _, _)
TradedQuantity(ts, s, type) ==
    IF ts = <<>> THEN 0
    ELSE (IF Head(ts).symbol = s /\ Head(ts).type = type THEN Head(ts).quantity ELSE 0)
         + TradedQuantity(Tail(ts), s, type)

LoadedQuantity(s) ==
    IF \E k \in 1..Len(LegacySnapshot.entries) : LegacySnapshot.entries[k].symbol = s
    THEN Deserialize(LegacySnapshot).positions[s].quantity
    ELSE 0

(* C23: a position is closed at most once: the quantity the sell records   *)
(* of a symbol add up to never exceeds the quantity bought, which is that  *)
(* of its buy records and of the position the session started with.        *)
C23_ClosedAtMostOnce ==
    \A s \in Symbols :
        TradedQuantity(portfolio.trades, s, "sell")
            <= TradedQuantity(portfolio.trades, s, "buy") + LoadedQuantity(s)

(* C24: the cash of the portfolio is never negative. *)
C24_CashNeverNegative == portfolio.balance >= 0

-----------------------------------------------------------------------------
(* The scan cycle and the position count *)

NumIn(scs, pcs) == Cardinality({i \in 1..MaxScans : scs[i].pc \in pcs})

(* C25: whether a scan cycle seeks new entries is decided from the number  *)
(* of open positions after its exit phase: a cycle whose exit phase ends   *)
(* with the sale of a position and which completes without scanning        *)
(* candidates leaves the positions at the configured maximum.              *)
C25_EntryDecidedAfterExits ==
    [][(/\ NumIn(scans', ExitPcs) < NumIn(scans, ExitPcs)
        /\ NumIn(scans', EntryPcs) = NumIn(scans, EntryPcs)
        /\ Len(portfolio'.trades) > Len(portfolio.trades)
        /\ last' = Event("autoPilotScan", "BTC", "complete"))
          => Cardinality(Held(portfolio')) >= config.maxPositions]_vars

(* C26: while the autopilot reports isRunning, config.enabled is true, so  *)
(* that every timer tick performs a scan.                                  *)
C26_RunningImpliesEnabled == isRunning => config.enabled

-----------------------------------------------------------------------------
(* The capital of a backtest and the signals of macdCrossover *)

RECURSIVE SumTradePnl(_)
SumTradePnl(ts) == IF ts = <<>> THEN 0 ELSE Head(ts).pnl + SumTradePnl(Tail(ts))

(* The commission of line 128 for the position of a recorded trade, whose  *)
(* positionCapital is quantity * entryPrice.                               *)
EntryCommission(t) ==
    (((t.quantity * t.entryPrice) \div QuantityScale) * CommissionPerMille) \div 1000

RECURSIVE SumEntryCommissions(_)
SumEntryCommissions(ts) ==
    IF ts = <<>> THEN 0 ELSE EntryCommission(Head(ts)) + SumEntryCommissions(Tail(ts))

(* C27: the final capital of a backtest is the initial capital plus the    *)
(* pnl of the recorded trades minus the entry commissions charged, up to   *)
(* the rounding of one dollar a trade.                                     *)
C27_CapitalConserved ==
    backtest.pc = "returned" =>
        LET r == backtest.result
        IN Abs(r.finalCapital
                 - (InitialCapital + SumTradePnl(r.trades) - SumEntryCommissions(r.trades)))
              <= Len(r.trades)

(* The crossover tests of lines 285-286 on the series calculateMACD returns. *)
MacdCross(b) ==
    LET macdLine == At(b.indicators.macd.macd, b.i)
        signalLine == At(b.indicators.macd.signal, b.i)
        prevMacd == At(b.indicators.macd.macd, b.i - 1)
        prevSignal == At(b.indicators.macd.signal, b.i - 1)
    IN IF macdLine = Null \/ signalLine = Null \/ prevMacd = Null \/ prevSignal = Null
       THEN "none"
       ELSE IF prevMacd <= prevSignal /\ macdLine > signalLine THEN "bullish"
       ELSE IF prevMacd >= prevSignal /\ macdLine < signalLine THEN "bearish"
       ELSE "none"

AtMacdBar ==
    /\ backtest.pc = "loop"
    /\ backtest.strategy = "macdCrossover"
    /\ backtest.i < Len(backtest.candles)

(* C28: under macdCrossover, on a bar at index 50 or later where the MACD  *)
(* line crosses above its signal line generateSignal returns buy, and      *)
(* where it crosses below it returns sell.                                 *)
C28_MacdCrossoverSignals ==
    AtMacdBar =>
        LET signal == GenerateSignal(backtest.i, backtest.candles, backtest.indicators,
                                     backtest.strategy)
        IN /\ MacdCross(backtest) = "bullish" => signal = "buy"
           /\ MacdCross(backtest) = "bearish" => signal = "sell"

-----------------------------------------------------------------------------
(* Alert monitoring *)

InitAlerts ==
    /\ \E env \in Environments :
          ModuleLoaded(LoadAutoPilotConfig(env.maxPositions), env.quota)
    /\ council = NoCouncil
    /\ backtest = NoBacktest
    /\ risk = NoRisk
    /\ indicator = NoIndicator
    /\ \E stored \in StoredAlerts :
          alerts = [NoAlerts EXCEPT !.price_alerts = stored, !.created = Len(stored)]
    /\ socket = NoSocket

(* startAlertMonitoring, lines 274-287 (Layout.tsx line 35). *)
StartAlertMonitoring ==
    LET loaded == LoadAlerts(alerts)
    IN /\ ~alerts.alertCheckInterval
       /\ alerts.made + Len(alerts.price_alerts) <= MaxObjects
       /\ loaded.alerts # <<>> => FreeChecks(loaded) # {}
       /\ alerts' = [CheckAlertsCall(loaded) EXCEPT !.alertCheckInterval = TRUE]
       /\ UNCHANGED <<portfolio, config, isRunning, intervalId, ops, scans, last, storage,
                      council, backtest, risk, indicator, socket>>

(* stopAlertMonitoring, lines 290-296. *)
StopAlertMonitoring ==
    /\ alerts.alertCheckInterval
    /\ alerts' = [alerts EXCEPT !.alertCheckInterval = FALSE]
    /\ UNCHANGED <<portfolio, config, isRunning, intervalId, ops, scans, last, storage,
                   council, backtest, risk, indicator, socket>>

(* The interval timer of line 284 fires and calls checkAlerts. *)
AlertTimer ==
    /\ alerts.alertCheckInterval
    /\ alerts.alerts # <<>>
    /\ FreeChecks(alerts) # {}
    /\ alerts' = CheckAlertsCall(alerts)
    /\ UNCHANGED <<portfolio, config, isRunning, intervalId, ops, scans, last, storage,
                   council, backtest, risk, indicator, socket>>

(* The import of line 234 settles: lines 236-240. *)
CheckAlertsImported(k) ==
    LET activeAlerts == SelectSeq(alerts.alerts, LAMBDA o : ~alerts.objects[o].triggered)
    IN /\ alerts.checks[k].pc = "import"
       /\ alerts' = [alerts EXCEPT !.checks[k] =
                        IF activeAlerts = <<>> THEN IdleCheck
                        ELSE [pc |-> "tickers", activeAlerts |-> activeAlerts]]
       /\ UNCHANGED <<portfolio, config, isRunning, intervalId, ops, scans, last, storage,
                      council, backtest, risk, indicator, socket>>

(* fetchBinanceTickers settles: lines 242-270.  quote: the price of the    *)
(* symbol, or NoTicker when the quotes have none for it; throws: the fetch *)
(* is rejected and the run ends there.                                     *)
CheckAlertsQuotes(k, quote, throws) ==
    /\ alerts.checks[k].pc = "tickers"
    /\ throws => quote = NoTicker
    /\ alerts' = IF throws THEN [alerts EXCEPT !.checks[k] = IdleCheck]
                 ELSE SaveAlerts([CheckLoop(alerts, alerts.checks[k].activeAlerts, quote)
                                     EXCEPT !.checks[k] = IdleCheck])
    /\ UNCHANGED <<portfolio, config, isRunning, intervalId, ops, scans, last, storage,
                   council, backtest, risk, indicator, socket>>

(* createAlert, lines 115-138. *)
CreateAlert(condition) ==
    LET alert == [id |-> alerts.created + 1, symbol |-> AlertSymbol,
                  targetPrice |-> TargetPrice, condition |-> condition, triggered |-> FALSE]
    IN /\ alerts.created < MaxAlerts
       /\ alerts.made < MaxObjects
       /\ alerts' = SaveAlerts([alerts EXCEPT !.objects[alerts.made + 1] = alert,
                                              !.made = alerts.made + 1,
                                              !.created = alerts.created + 1,
                                              !.alerts = Append(alerts.alerts, alerts.made + 1)])
       /\ UNCHANGED <<portfolio, config, isRunning, intervalId, ops, scans, last, storage,
                      council, backtest, risk, indicator, socket>>

(* deleteAlert, lines 141-145. *)
DeleteAlert(id) ==
    /\ \E n \in 1..Len(alerts.alerts) : alerts.objects[alerts.alerts[n]].id = id
    /\ alerts' = SaveAlerts([alerts EXCEPT !.alerts =
                                SelectSeq(alerts.alerts, LAMBDA o : alerts.objects[o].id # id)])
    /\ UNCHANGED <<portfolio, config, isRunning, intervalId, ops, scans, last, storage,
                   council, backtest, risk, indicator, socket>>

(* clearTriggeredAlerts, lines 148-152. *)
ClearTriggeredAlerts ==
    /\ \E n \in 1..Len(alerts.alerts) : alerts.objects[alerts.alerts[n]].triggered
    /\ alerts' = SaveAlerts([alerts EXCEPT !.alerts =
                                SelectSeq(alerts.alerts, LAMBDA o : ~alerts.objects[o].triggered)])
    /\ UNCHANGED <<portfolio, config, isRunning, intervalId, ops, scans, last, storage,
                   council, backtest, risk, indicator, socket>>

NextAlerts ==
    \/ StartAlertMonitoring
    \/ StopAlertMonitoring
    \/ AlertTimer
    \/ \E k \in 1..MaxChecks : CheckAlertsImported(k)
    \/ \E k \in 1..MaxChecks, quote \in AlertPrices \cup {NoTicker}, throws \in BOOLEAN :
          CheckAlertsQuotes(k, quote, throws)
    \/ \E condition \in Conditions : CreateAlert(condition)
    \/ \E id \in 1..MaxAlerts : DeleteAlert(id)
    \/ ClearTriggeredAlerts

SpecAlerts == InitAlerts /\ [][NextAlerts]_vars

Notified(id) ==
    Cardinality({n \in 1..Len(alerts.notifications) : alerts.notifications[n].alert = id})

(* C29: each price alert generates at most one notification. *)
C29_AlertFiresOnce == \A id \in 1..MaxAlerts : Notified(id) <= 1

-----------------------------------------------------------------------------
(* The life of a BinanceWebSocket *)

(* The constructor, lines 24-26, has called connect. *)
InitSocket ==
    /\ \E env \in Environments :
          ModuleLoaded(LoadAutoPilotConfig(env.maxPositions), env.quota)
    /\ council = NoCouncil
    /\ backtest = NoBacktest
    /\ risk = NoRisk
    /\ indicator = NoIndicator
    /\ alerts = NoAlerts
    /\ \E throws \in BOOLEAN : socket = Connect(NoSocket, throws)

(* The open event: onopen, lines 39-43. *)
SocketOpen(s) ==
    /\ socket.sockets[s] = "connecting"
    /\ socket' = [socket EXCEPT !.sockets[s] = "open", !.reconnectAttempts = 0,
                                !.isConnecting = FALSE]
    /\ UNCHANGED <<portfolio, config, isRunning, intervalId, ops, scans, last, storage,
                   council, backtest, risk, indicator, alerts>>

(* A message event: onmessage, lines 45-84. *)
SocketMessage(s, price) ==
    /\ socket.sockets[s] = "open"
    /\ socket' = [socket EXCEPT !.tickerData = price]
    /\ UNCHANGED <<portfolio, config, isRunning, intervalId, ops, scans, last, storage,
                   council, backtest, risk, indicator, alerts>>

(* The connection fails: the error event, onerror, lines 86-89; the close  *)
(* event follows.                                                          *)
SocketError(s) ==
    /\ socket.sockets[s] \in {"connecting", "open"}
    /\ socket' = [socket EXCEPT !.sockets[s] = "closing", !.isConnecting = FALSE]
    /\ UNCHANGED <<portfolio, config, isRunning, intervalId, ops, scans, last, storage,
                   council, backtest, risk, indicator, alerts>>

(* The close event of a socket the server, a failure or close() has closed. *)
SocketClose(s) ==
    /\ socket.sockets[s] \in {"open", "closing"}
    /\ socket' = OnClose([socket EXCEPT !.sockets[s] = "closed"])
    /\ UNCHANGED <<portfolio, config, isRunning, intervalId, ops, scans, last, storage,
                   council, backtest, risk, indicator, alerts>>

(* A timer of line 99 fires. *)
ReconnectTimer(throws) ==
    /\ socket.timers > 0
    /\ socket.made < MaxSockets
    /\ socket' = Connect([socket EXCEPT !.timers = socket.timers - 1], throws)
    /\ UNCHANGED <<portfolio, config, isRunning, intervalId, ops, scans, last, storage,
                   council, backtest, risk, indicator, alerts>>

(* subscribe, lines 109-127, and the unsubscribe function it returns. *)
Subscribe ==
    /\ socket.subscribers < MaxSubscribers
    /\ socket' = [socket EXCEPT !.subscribers = socket.subscribers + 1]
    /\ UNCHANGED <<portfolio, config, isRunning, intervalId, ops, scans, last, storage,
                   council, backtest, risk, indicator, alerts>>

Unsubscribe ==
    /\ socket.subscribers > 0
    /\ socket' = [socket EXCEPT !.subscribers = socket.subscribers - 1]
    /\ UNCHANGED <<portfolio, config, isRunning, intervalId, ops, scans, last, storage,
                   council, backtest, risk, indicator, alerts>>

SocketDisconnect ==
    /\ socket' = Disconnect(socket)
    /\ socket' # socket
    /\ UNCHANGED <<portfolio, config, isRunning, intervalId, ops, scans, last, storage,
                   council, backtest, risk, indicator, alerts>>

NextSocket ==
    \/ \E s \in 1..MaxSockets : SocketOpen(s)
    \/ \E s \in 1..MaxSockets, price \in Prices : SocketMessage(s, price)
    \/ \E s \in 1..MaxSockets : SocketError(s)
    \/ \E s \in 1..MaxSockets : SocketClose(s)
    \/ \E throws \in BOOLEAN : ReconnectTimer(throws)
    \/ Subscribe
    \/ Unsubscribe
    \/ SocketDisconnect

SpecSocket == InitSocket /\ [][NextSocket]_vars

(* C30: after disconnect() has been called on an open connection, no step  *)
(* schedules a reconnect and no new socket is opened.                      *)
C30_DisconnectIsFinal ==
    [][socket.final => (socket'.timers <= socket.timers /\ socket'.made = socket.made)]_vars

-----------------------------------------------------------------------------
(* The program with dynamic levels disabled in the stored configuration *)

InitFixed ==
    /\ \E env \in Environments :
          ModuleLoaded(LoadFixedLevelsConfig(env.maxPositions), env.quota)
    /\ council = NoCouncil
    /\ backtest = NoBacktest
    /\ risk = NoRisk
    /\ indicator = NoIndicator
    /\ alerts = NoAlerts
    /\ socket = NoSocket

SpecFixed == InitFixed /\ [][Next]_vars

(* The paperSell a scan made for a position has closed it: the symbol has   *)
(* left the positions map and a closed sell record for the quantity held    *)
(* has been appended.                                                       *)
ClosedBy(sc) ==
    LET new == portfolio'.trades
    IN /\ ~portfolio'.positions[sc.cur].held
       /\ Len(new) = Len(portfolio.trades) + 1
       /\ new[Len(new)].symbol = sc.cur
       /\ new[Len(new)].type = "sell"
       /\ new[Len(new)].status = "closed"
       /\ new[Len(new)].quantity = sc.pos.quantity

(* C14: with dynamic levels disabled, the scan cycle that fetches a price at *)
(* or below avgCost * (1 - stopLossPercent / 100) for a position closes it:  *)
(* when the stop-loss sell of that cycle ends, the symbol has left the       *)
(* positions map and a closed sell record for the whole position exists.     *)
C14_FixedStopLossCloses ==
    [][\A i \in 1..MaxScans, t \in Tickers, x \in BOOLEAN :
          (scans[i].reason = "stopLoss" /\ ScanExitSellTicker(i, t, x)) =>
              ClosedBy(scans[i])]_vars

=============================================================================
